---- MODULE Spec2Model ----
(***************************************************************************)
(* ARMv4 interpreter of pksx (src/src/cpu/armv4_is.rs) and the bus it      *)
(* drives (src/src/memory/mod.rs).                                         *)
(*                                                                         *)
(* A 32-bit word is a function from bit positions 0..31 to BOOLEAN, so     *)
(* that every u32 operation of the source keeps its width: TLC integers    *)
(* are 32-bit signed and cannot hold 2^32 - 1.                             *)
(***************************************************************************)
EXTENDS Integers, Sequences, FiniteSets, TLC

VARIABLES cpu, before, instruction, steps, inter

vars == <<cpu, before, instruction, steps, inter>>

(***************************************************************************)
(* u32 arithmetic                                                          *)
(***************************************************************************)
Pow2(k) == 2 ^ k

Bit(x, i) == (x \div Pow2(i)) % 2 = 1

\* The word whose upper halfword is hi and lower halfword is lo
HL(hi, lo) == [i \in 0..31 |-> IF i < 16 THEN Bit(lo, i) ELSE Bit(hi, i - 16)]

RECURSIVE Bits(_, _, _)
\* The unsigned value of the len bits of w starting at bit lo (len <= 30)
Bits(w, lo, len) ==
    IF len = 0 THEN 0
    ELSE (IF w[lo] THEN 1 ELSE 0) + 2 * Bits(w, lo + 1, len - 1)

Lo16(w) == Bits(w, 0, 16)
Hi16(w) == Bits(w, 16, 16)

Zero32 == HL(0, 0)

\* (x as i32) < 0
is_neg(w) == w[31]

\* u32::overflowing_add: <<sum mod 2^32, carry out>>
overflowing_add(x, y) ==
    LET lo == Lo16(x) + Lo16(y)
        hi == Hi16(x) + Hi16(y) + (lo \div 65536)
    IN  <<HL(hi % 65536, lo % 65536), hi >= 65536>>

wrapping_add(x, y) == overflowing_add(x, y)[1]

wrapping_sub(x, y) ==
    LET lo == Lo16(x) + (65535 - Lo16(y)) + 1
        hi == Hi16(x) + (65535 - Hi16(y)) + (lo \div 65536)
    IN  HL(hi % 65536, lo % 65536)

\* x >= y on u32
ge_u32(x, y) ==
    \/ Hi16(x) > Hi16(y)
    \/ Hi16(x) = Hi16(y) /\ Lo16(x) >= Lo16(y)

\* x << k, x >> k (logical), (x as i32) >> k, for k in 0..31
shl(x, k) == [i \in 0..31 |-> IF i >= k THEN x[i - k] ELSE FALSE]
shr(x, k) == [i \in 0..31 |-> IF i + k <= 31 THEN x[i + k] ELSE FALSE]
sar(x, k) == [i \in 0..31 |-> IF i + k <= 31 THEN x[i + k] ELSE x[31]]

rotate_right(x, k) == [i \in 0..31 |-> x[(i + k) % 32]]

and32(x, y) == [i \in 0..31 |-> x[i] /\ y[i]]
or32(x, y)  == [i \in 0..31 |-> x[i] \/ y[i]]
xor32(x, y) == [i \in 0..31 |-> x[i] # y[i]]
not32(x)    == [i \in 0..31 |-> ~x[i]]

\* u32::wrapping_mul, by long multiplication on bytes
wrapping_mul(x, y) ==
    LET xb == [k \in 0..3 |-> Bits(x, 8 * k, 8)]
        yb == [k \in 0..3 |-> Bits(y, 8 * k, 8)]
        t0 == xb[0] * yb[0]
        t1 == (xb[0] * yb[1]) + (xb[1] * yb[0]) + (t0 \div 256)
        t2 == (xb[0] * yb[2]) + (xb[1] * yb[1]) + (xb[2] * yb[0]) + (t1 \div 256)
        t3 == (xb[0] * yb[3]) + (xb[1] * yb[2]) + (xb[2] * yb[1])
              + (xb[3] * yb[0]) + (t2 \div 256)
    IN  HL(((t3 % 256) * 256) + (t2 % 256), ((t1 % 256) * 256) + (t0 % 256))

\* A small unsigned integer as a word
U32(k) == HL(k \div 65536, k % 65536)

(***************************************************************************)
(* Instruction: field accessors (armv4_is.rs, impl Instruction)            *)
(***************************************************************************)
opcode(i) == (Bits(i, 20, 8) * 16) + Bits(i, 4, 4)

condition_code(i) == Bits(i, 28, 4)

rn(i) == Bits(i, 16, 4)
rd(i) == Bits(i, 12, 4)
rs(i) == Bits(i, 8, 4)
rm(i) == Bits(i, 0, 4)

\* ((self.0 << 8) as i32 >> 6) as u32
branch_imm_offset(i) == sar(shl(i, 8), 6)

msr_field_mask(i) == Bits(i, 16, 4)

register_list(i) == Bits(i, 0, 16)

is_pc(r) == r = 15

(***************************************************************************)
(* The machine.  cpu is a record:                                          *)
(*   registers  the sixteen general registers; registers[15] holds the     *)
(*              address of the running instruction plus 8                  *)
(*   next_pc    address of the next instruction to fetch                   *)
(*   n, z, c, v, thumb, mode   the CPSR                                    *)
(*   spsr       the saved status register of the current mode              *)
(*   bios_at_0, bios, ram      the part of the interconnect behind         *)
(*              regions 0x00 and 0x04                                      *)
(*   log        the register writes, status writes and bus accesses of the *)
(*              running step, in program order                             *)
(*   kernel     the dispatch-table entry invoked by the running step       *)
(*   debug      whether the build has debug assertions and overflow checks *)
(*   panic      "" or the message of the panic that ended the step         *)
(* A panic ends the step: every primitive leaves a panicked cpu unchanged. *)
(***************************************************************************)
NoPanic == ""

panicked(c) == c.panic # NoPanic

panic(c, msg) == IF panicked(c) THEN c ELSE [c EXCEPT !.panic = msg]

Log(c, e) == [c EXCEPT !.log = Append(@, e)]

\* Cpu::reg: register 15 reads as the running instruction's address + 8
reg(c, r) == c.registers[r]

\* Cpu::set_pc: the next fetch address, aligned to 4 bytes
set_pc(c, pc) ==
    IF panicked(c) THEN c
    ELSE Log([c EXCEPT !.next_pc = and32(pc, not32(U32(3)))], <<"set_pc", pc>>)

\* Cpu::set_reg: a write to register 15 updates the fetch pointer
set_reg(c, r, val) ==
    IF panicked(c) THEN c
    ELSE IF is_pc(r) THEN set_pc(c, val)
    ELSE Log([c EXCEPT !.registers[r] = val], <<"set_reg", r, val>>)

\* Cpu::set_reg_pc_mask: clears the low two bits when the target is PC
set_reg_pc_mask(c, r, val) ==
    IF is_pc(r) THEN set_reg(c, r, and32(val, not32(U32(3))))
    ELSE set_reg(c, r, val)

\* Cpu::set_pc_thumb: branch and exchange instruction set
set_pc_thumb(c, pc, thumb) ==
    IF panicked(c) THEN c
    ELSE Log([c EXCEPT !.next_pc = pc, !.thumb = thumb],
             <<"set_pc_thumb", pc, thumb>>)

\* Cpu::set_pc_cpsr: PC and CPSR replaced together
set_pc_cpsr(c, pc, psr) ==
    IF panicked(c) THEN c
    ELSE Log([c EXCEPT !.next_pc = pc,
                       !.n = psr.n, !.z = psr.z, !.c = psr.c, !.v = psr.v,
                       !.thumb = psr.thumb, !.mode = psr.mode],
             <<"set_pc_cpsr", pc>>)

set_n(c, x) == IF panicked(c) THEN c ELSE [c EXCEPT !.n = x]
set_z(c, x) == IF panicked(c) THEN c ELSE [c EXCEPT !.z = x]
set_c(c, x) == IF panicked(c) THEN c ELSE [c EXCEPT !.c = x]
set_v(c, x) == IF panicked(c) THEN c ELSE [c EXCEPT !.v = x]

\* Cpu::cpsr: N, Z, C, V in bits 31..28, T in bit 5, the mode in bits 4..0
cpsr(c) ==
    [i \in 0..31 |->
        CASE i = 31 -> c.n
          [] i = 30 -> c.z
          [] i = 29 -> c.c
          [] i = 28 -> c.v
          [] i = 5  -> c.thumb
          [] i < 5  -> Bit(c.mode, i)
          [] OTHER  -> FALSE]

psr_word(p) == cpsr(p)

\* Cpu::msr_cpsr: byte-granular write, field mask bit k selects byte k
msr_cpsr(c, val, mask) ==
    IF panicked(c) THEN c
    ELSE LET flags   == Bit(mask, 3)
             control == Bit(mask, 0)
         IN  Log([c EXCEPT !.n = IF flags THEN val[31] ELSE @,
                           !.z = IF flags THEN val[30] ELSE @,
                           !.c = IF flags THEN val[29] ELSE @,
                           !.v = IF flags THEN val[28] ELSE @,
                           !.thumb = IF control THEN val[5] ELSE @,
                           !.mode = IF control THEN Bits(val, 0, 5) ELSE @],
                 <<"msr_cpsr", mask>>)

SupervisorMode == 19

\* Cpu::swi: SPSR_svc = CPSR, LR_svc = return address, PC = SWI vector
swi_trap(c) ==
    IF panicked(c) THEN c
    ELSE Log([c EXCEPT !.spsr = [n |-> c.n, z |-> c.z, c |-> c.c, v |-> c.v,
                                 thumb |-> c.thumb, mode |-> c.mode],
                       !.mode = SupervisorMode,
                       !.thumb = FALSE,
                       !.registers[14] = c.next_pc,
                       !.next_pc = U32(8)],
             <<"swi">>)

(***************************************************************************)
(* Bus (memory/mod.rs).  Addressable::size is 1, 2 or 4.                   *)
(***************************************************************************)
Byte == 1
HalfWord == 2
Word == 4

\* Ram::load / Bios::load: little-endian bytes of a byte-indexed store
\* that reads 0 where nothing was stored
mem_byte(m, o) == IF o \in DOMAIN m THEN m[o] ELSE 0

mem_load(m, size, o) ==
    CASE size = 1 -> U32(mem_byte(m, o))
      [] size = 2 -> U32(mem_byte(m, o) + 256 * mem_byte(m, o + 1))
      [] OTHER    -> HL(mem_byte(m, o + 2) + 256 * mem_byte(m, o + 3),
                       mem_byte(m, o) + 256 * mem_byte(m, o + 1))

\* Ram::store
mem_store(m, size, o, val) ==
    [a \in (DOMAIN m) \cup {o + k : k \in 0..(size - 1)} |->
        IF a >= o /\ a < o + size THEN Bits(val, 8 * (a - o), 8) ELSE m[a]]

\* addr & (A::size() - 1) != 0
misaligned(size, addr) == Bits(addr, 0, 2) % size # 0

\* Interconnect::load
inter_load(c, size, addr) ==
    LET region == Bits(addr, 24, 8)
        offset == Bits(addr, 0, 24)
    IN  IF misaligned(size, addr)
        THEN [cpu |-> panic(c, "Missaligned load"), val |-> Zero32]
        ELSE CASE region = 0 ->
                    IF c.bios_at_0
                    THEN [cpu |-> c, val |-> mem_load(c.bios, size, offset)]
                    ELSE [cpu |-> c, val |-> mem_load(c.ram, size, offset)]
               [] region = 4 ->
                    [cpu |-> c, val |-> mem_load(c.bios, size, offset)]
               [] OTHER ->
                    [cpu |-> panic(c, "unhandled load address"), val |-> Zero32]

\* Interconnect::store
inter_store(c, size, addr, val) ==
    LET region == Bits(addr, 24, 8)
        offset == Bits(addr, 0, 24)
    IN  IF misaligned(size, addr)
        THEN panic(c, "Missaligned store")
        ELSE CASE region = 0 ->
                    IF ~c.bios_at_0
                    THEN [c EXCEPT !.ram = mem_store(@, size, offset, val)]
                    ELSE c
               [] OTHER -> panic(c, "unhandled store address")

\* Cpu::load: one bus load; returns the cpu and the value read
load(c, size, addr) ==
    IF panicked(c) THEN [cpu |-> c, val |-> Zero32]
    ELSE inter_load(Log(c, <<"load", size, addr>>), size, addr)

\* Cpu::store: one bus store
store(c, size, addr, val) ==
    IF panicked(c) THEN c
    ELSE inter_store(Log(c, <<"store", size, addr, val>>), size, addr, val)

(***************************************************************************)
(* Addressing mode 1: data-processing operands.  value_carry returns a     *)
(* record: val, carry, and unimpl where the source is unimplemented!().    *)
(***************************************************************************)
VC(val, carry) == [val |-> val, carry |-> carry, unimpl |-> FALSE]

Unimpl == [val |-> Zero32, carry |-> FALSE, unimpl |-> TRUE]

Mode1Imm_value(i, c) ==
    LET rot == Bits(i, 8, 4)
        imm == U32(Bits(i, 0, 8))
    IN  rotate_right(imm, rot * 2)

Mode1Imm_value_carry(i, c) ==
    LET rot == Bits(i, 8, 4)
        imm == U32(Bits(i, 0, 8))
    IN  IF rot = 0 THEN VC(imm, c.c)
        ELSE LET r == rotate_right(imm, rot * 2)
             IN  VC(r, is_neg(r))

Mode1LslImm_value(i, c) ==
    LET shift == Bits(i, 7, 5)
        val   == reg(c, rm(i))
    IN  shl(val, shift)

Mode1LslImm_value_carry(i, c) ==
    LET shift == Bits(i, 7, 5)
        val   == reg(c, rm(i))
    IN  IF shift = 0 THEN VC(val, c.c)
        ELSE VC(shl(val, shift), shl(val, shift - 1)[31])

\* Mode1LsrImm::value shifting by the field as it stands, 0 included
Mode1LsrImm_value_by_field(i, c) ==
    LET shift == Bits(i, 7, 5)
        val   == reg(c, rm(i))
    IN  shr(val, shift)

Mode1LsrImm_value(i, c) ==
    LET shift == Bits(i, 7, 5)
        val   == reg(c, rm(i))
    IN  IF shift = 0 THEN Zero32 ELSE shr(val, shift)

Mode1LsrImm_value_carry(i, c) ==
    LET shift == Bits(i, 7, 5)
        val   == reg(c, rm(i))
    IN  IF shift = 0 THEN VC(Zero32, is_neg(val))
        ELSE VC(shr(val, shift), shr(val, shift - 1)[0])

Mode1LslReg_value(i, c) ==
    LET val   == reg(c, rm(i))
        shift == Bits(reg(c, rs(i)), 0, 8)
    IN  IF shift <= 31 THEN shl(val, shift) ELSE Zero32

Mode1LsrReg_value(i, c) ==
    LET val   == reg(c, rm(i))
        shift == Bits(reg(c, rs(i)), 0, 8)
    IN  IF shift <= 31 THEN shr(val, shift) ELSE Zero32

Mode1AsrImm_value(i, c) ==
    LET shift == Bits(i, 7, 5)
        val   == reg(c, rm(i))
    IN  IF shift = 0 THEN sar(val, 31) ELSE sar(val, shift)

Mode1AsrImm_value_carry(i, c) ==
    LET shift == Bits(i, 7, 5)
        val   == reg(c, rm(i))
    IN  IF shift = 0 THEN VC(sar(val, 31), is_neg(val))
        ELSE VC(sar(val, shift), sar(val, shift - 1)[0])

\* Mode1AsrReg::value giving 0, as the logical shifts do, for a shift of 32 or more
Mode1AsrReg_value_large_as_zero(i, c) ==
    LET val   == reg(c, rm(i))
        shift == Bits(reg(c, rs(i)), 0, 8)
    IN  IF shift <= 31 THEN sar(val, shift) ELSE Zero32

Mode1AsrReg_value(i, c) ==
    LET val   == reg(c, rm(i))
        shift == Bits(reg(c, rs(i)), 0, 8)
    IN  IF shift <= 31 THEN sar(val, shift) ELSE sar(val, 31)

Mode1RorImm_value(i, c) ==
    LET shift == Bits(i, 7, 5)
        val   == reg(c, rm(i))
    IN  IF shift = 0
        THEN or32(shl(U32(IF c.c THEN 1 ELSE 0), 31), shr(val, 1))
        ELSE rotate_right(val, shift)

Mode1RorImm_value_carry(i, c) ==
    LET shift == Bits(i, 7, 5)
        val   == reg(c, rm(i))
    IN  IF shift = 0
        THEN LET r == or32(shl(U32(IF c.c THEN 1 ELSE 0), 31), shr(val, 1))
             IN  VC(r, r[0])
        ELSE VC(rotate_right(val, shift), shr(val, shift - 1)[0])

Mode1RorReg_value(i, c) ==
    LET val   == reg(c, rm(i))
        shift == Bits(reg(c, rs(i)), 0, 5)
    IN  rotate_right(val, shift)

Mode1RorReg_value_carry(i, c) ==
    LET val   == reg(c, rm(i))
        shift == Bits(reg(c, rs(i)), 0, 8)
    IN  IF shift = 0 THEN VC(val, c.c)
        ELSE IF shift % 32 = 0 THEN VC(val, is_neg(val))
        ELSE VC(rotate_right(val, shift % 32), shr(val, (shift % 32) - 1)[0])

\* M::value for the evaluator named M
value(M, i, c) ==
    CASE M = "Mode1Imm"    -> Mode1Imm_value(i, c)
      [] M = "Mode1LslImm" -> Mode1LslImm_value(i, c)
      [] M = "Mode1LsrImm" -> Mode1LsrImm_value(i, c)
      [] M = "Mode1LslReg" -> Mode1LslReg_value(i, c)
      [] M = "Mode1LsrReg" -> Mode1LsrReg_value(i, c)
      [] M = "Mode1AsrImm" -> Mode1AsrImm_value(i, c)
      [] M = "Mode1AsrReg" -> Mode1AsrReg_value(i, c)
      [] M = "Mode1RorImm" -> Mode1RorImm_value(i, c)
      [] M = "Mode1RorReg" -> Mode1RorReg_value(i, c)

\* M::value_carry for the evaluator named M
value_carry(M, i, c) ==
    CASE M = "Mode1Imm"    -> Mode1Imm_value_carry(i, c)
      [] M = "Mode1LslImm" -> Mode1LslImm_value_carry(i, c)
      [] M = "Mode1LsrImm" -> Mode1LsrImm_value_carry(i, c)
      [] M = "Mode1LslReg" -> Unimpl
      [] M = "Mode1LsrReg" -> Unimpl
      [] M = "Mode1AsrImm" -> Mode1AsrImm_value_carry(i, c)
      [] M = "Mode1AsrReg" -> Unimpl
      [] M = "Mode1RorImm" -> Mode1RorImm_value_carry(i, c)
      [] M = "Mode1RorReg" -> Mode1RorReg_value_carry(i, c)

\* M::is_valid(instruction, opcode, s) for addressing mode 1
Mode1_is_valid(M, i, op, s) ==
    /\ Bit(Bits(i, 20, 1), 0) = s
    /\ Bits(i, 21, 4) = op
    /\ CASE M = "Mode1Imm"    -> Bits(i, 25, 3) = 1
         [] M = "Mode1LslImm" -> Bits(i, 25, 3) = 0 /\ Bits(i, 4, 3) = 0
         [] M = "Mode1LsrImm" -> Bits(i, 25, 3) = 0 /\ Bits(i, 4, 3) = 2
         [] M = "Mode1LslReg" -> Bits(i, 25, 3) = 0 /\ Bits(i, 4, 4) = 1
         [] M = "Mode1LsrReg" -> Bits(i, 25, 3) = 0 /\ Bits(i, 4, 4) = 3
         [] M = "Mode1AsrImm" -> Bits(i, 25, 3) = 0 /\ Bits(i, 4, 3) = 4
         [] M = "Mode1AsrReg" -> Bits(i, 25, 3) = 0 /\ Bits(i, 4, 4) = 5
         [] M = "Mode1RorImm" -> Bits(i, 25, 3) = 0 /\ Bits(i, 4, 3) = 6
         [] M = "Mode1RorReg" -> Bits(i, 25, 3) = 0 /\ Bits(i, 4, 4) = 7

\* debug_assert!(cond): a debug build panics where cond is false
debug_assert(c, cond) ==
    IF cond \/ ~c.debug THEN c ELSE panic(c, "assertion failed")

\* The cpu after M::value_carry returned vc (or hit unimplemented!())
after_vc(c, vc) == IF vc.unimpl THEN panic(c, "not implemented") ELSE c

\* The S kernels without their destination check
s_pc_target_unchecked(c, i) == c

s_pc_target(c, i) ==
    IF is_pc(rd(i)) THEN panic(c, "*S instruction with PC target") ELSE c

(***************************************************************************)
(* Data-processing kernels.  Each takes the evaluator M it is instantiated *)
(* with, the instruction and the cpu, and returns the cpu after the call.  *)
(***************************************************************************)
and(M, i, c) ==
    LET vb  == value(M, i, c)
        c1  == debug_assert(c, Mode1_is_valid(M, i, 0, FALSE))
        val == and32(reg(c, rn(i)), vb)
    IN  set_reg(c1, rd(i), val)

ands(M, i, c) ==
    LET vc  == value_carry(M, i, c)
        c1  == debug_assert(after_vc(c, vc), Mode1_is_valid(M, i, 0, TRUE))
        c2  == s_pc_target(c1, i)
        val == and32(reg(c, rn(i)), vc.val)
    IN  set_c(set_z(set_n(set_reg(c2, rd(i), val), is_neg(val)),
                    val = Zero32), vc.carry)

eor(M, i, c) ==
    LET vb  == value(M, i, c)
        c1  == debug_assert(c, Mode1_is_valid(M, i, 1, FALSE))
        val == xor32(reg(c, rn(i)), vb)
    IN  set_reg(c1, rd(i), val)

eors(M, i, c) ==
    LET vc  == value_carry(M, i, c)
        c1  == debug_assert(after_vc(c, vc), Mode1_is_valid(M, i, 1, TRUE))
        c2  == s_pc_target(c1, i)
        val == xor32(reg(c, rn(i)), vc.val)
    IN  set_c(set_z(set_n(set_reg(c2, rd(i), val), is_neg(val)),
                    val = Zero32), vc.carry)

sub(M, i, c) ==
    LET vb  == value(M, i, c)
        c1  == debug_assert(c, Mode1_is_valid(M, i, 2, FALSE))
        val == wrapping_sub(reg(c, rn(i)), vb)
    IN  set_reg(c1, rd(i), val)

\* subs with C = (a > b), the carry lost on equal operands
subs_strict_carry(M, i, c) ==
    LET vb    == value(M, i, c)
        c1    == debug_assert(c, Mode1_is_valid(M, i, 2, TRUE))
        c2    == s_pc_target(c1, i)
        va    == reg(c, rn(i))
        val   == wrapping_sub(va, vb)
        a_neg == is_neg(va)
        b_neg == is_neg(vb)
        v_neg == is_neg(val)
    IN  set_v(set_c(set_z(set_n(set_reg(c2, rd(i), val), v_neg),
                          val = Zero32), ~ge_u32(vb, va)),
              (a_neg # b_neg) /\ (a_neg # v_neg))

subs(M, i, c) ==
    LET vb    == value(M, i, c)
        c1    == debug_assert(c, Mode1_is_valid(M, i, 2, TRUE))
        c2    == s_pc_target(c1, i)
        va    == reg(c, rn(i))
        val   == wrapping_sub(va, vb)
        a_neg == is_neg(va)
        b_neg == is_neg(vb)
        v_neg == is_neg(val)
    IN  set_v(set_c(set_z(set_n(set_reg(c2, rd(i), val), v_neg),
                          val = Zero32), ge_u32(va, vb)),
              (a_neg # b_neg) /\ (a_neg # v_neg))

rsb(M, i, c) ==
    LET va  == value(M, i, c)
        c1  == debug_assert(c, Mode1_is_valid(M, i, 3, FALSE))
        vb  == reg(c, rn(i))
        val == wrapping_sub(va, vb)
    IN  set_reg(c1, rd(i), val)

\* rsbs with the carry of Rn - operand
rsbs_carry_swapped(M, i, c) ==
    LET va    == value(M, i, c)
        c1    == debug_assert(c, Mode1_is_valid(M, i, 3, TRUE))
        c2    == s_pc_target(c1, i)
        vb    == reg(c, rn(i))
        val   == wrapping_sub(va, vb)
        a_neg == is_neg(va)
        b_neg == is_neg(vb)
        v_neg == is_neg(val)
    IN  set_v(set_c(set_z(set_n(set_reg(c2, rd(i), val), v_neg),
                          val = Zero32), ge_u32(vb, va)),
              (a_neg # b_neg) /\ (a_neg # v_neg))

\* Here a is the operand and b the value of Rn, as in the source
rsbs(M, i, c) ==
    LET va    == value(M, i, c)
        c1    == debug_assert(c, Mode1_is_valid(M, i, 3, TRUE))
        c2    == s_pc_target(c1, i)
        vb    == reg(c, rn(i))
        val   == wrapping_sub(va, vb)
        a_neg == is_neg(va)
        b_neg == is_neg(vb)
        v_neg == is_neg(val)
    IN  set_v(set_c(set_z(set_n(set_reg(c2, rd(i), val), v_neg),
                          val = Zero32), ge_u32(va, vb)),
              (a_neg # b_neg) /\ (a_neg # v_neg))

add(M, i, c) ==
    LET vb  == value(M, i, c)
        c1  == debug_assert(c, Mode1_is_valid(M, i, 4, FALSE))
        val == wrapping_add(reg(c, rn(i)), vb)
    IN  set_reg(c1, rd(i), val)

\* adds with V taken from the unsigned carry
adds_v_from_carry(M, i, c) ==
    LET vb    == value(M, i, c)
        c1    == debug_assert(c, Mode1_is_valid(M, i, 4, TRUE))
        c2    == s_pc_target(c1, i)
        va    == reg(c, rn(i))
        sum   == overflowing_add(va, vb)
        val   == sum[1]
        a_neg == is_neg(va)
        b_neg == is_neg(vb)
        v_neg == is_neg(val)
    IN  set_v(set_c(set_z(set_n(set_reg(c2, rd(i), val), v_neg),
                          val = Zero32), sum[2]),
              sum[2])

adds(M, i, c) ==
    LET vb    == value(M, i, c)
        c1    == debug_assert(c, Mode1_is_valid(M, i, 4, TRUE))
        c2    == s_pc_target(c1, i)
        va    == reg(c, rn(i))
        sum   == overflowing_add(va, vb)
        val   == sum[1]
        a_neg == is_neg(va)
        b_neg == is_neg(vb)
        v_neg == is_neg(val)
    IN  set_v(set_c(set_z(set_n(set_reg(c2, rd(i), val), v_neg),
                          val = Zero32), sum[2]),
              (a_neg = b_neg) /\ (a_neg # v_neg))

adc(M, i, c) ==
    LET carry == U32(IF c.c THEN 1 ELSE 0)
        vb    == value(M, i, c)
        c1    == debug_assert(c, Mode1_is_valid(M, i, 5, FALSE))
        val   == wrapping_add(wrapping_add(reg(c, rn(i)), vb), carry)
    IN  set_reg(c1, rd(i), val)

rd_should_be_zero(c, i, msg) == IF rd(i) # 0 THEN panic(c, msg) ELSE c

rn_should_be_zero(c, i, msg) == IF rn(i) # 0 THEN panic(c, msg) ELSE c

tst(M, i, c) ==
    LET vc  == value_carry(M, i, c)
        c1  == debug_assert(after_vc(c, vc), Mode1_is_valid(M, i, 8, TRUE))
        c2  == rd_should_be_zero(c1, i, "TST instruction with non-0 Rd")
        val == and32(reg(c, rn(i)), vc.val)
    IN  set_c(set_z(set_n(c2, is_neg(val)), val = Zero32), vc.carry)

teq(M, i, c) ==
    LET vc  == value_carry(M, i, c)
        c1  == debug_assert(after_vc(c, vc), Mode1_is_valid(M, i, 9, TRUE))
        c2  == rd_should_be_zero(c1, i, "TEQ instruction with non-0 Rd")
        val == xor32(reg(c, rn(i)), vc.val)
    IN  set_c(set_z(set_n(c2, is_neg(val)), val = Zero32), vc.carry)

cmp(M, i, c) ==
    LET vb    == value(M, i, c)
        c1    == debug_assert(c, Mode1_is_valid(M, i, 10, TRUE))
        c2    == rd_should_be_zero(c1, i, "CMP instruction with non-0 Rd")
        va    == reg(c, rn(i))
        val   == wrapping_sub(va, vb)
        a_neg == is_neg(va)
        b_neg == is_neg(vb)
        v_neg == is_neg(val)
    IN  set_v(set_c(set_z(set_n(c2, v_neg), val = Zero32), ge_u32(va, vb)),
              (a_neg # b_neg) /\ (a_neg # v_neg))

cmn(M, i, c) ==
    LET vb    == value(M, i, c)
        c1    == debug_assert(c, Mode1_is_valid(M, i, 11, TRUE))
        c2    == rd_should_be_zero(c1, i, "CMP instruction with non-0 Rd")
        va    == reg(c, rn(i))
        val   == wrapping_add(va, vb)
        a_neg == is_neg(va)
        b_neg == is_neg(vb)
        v_neg == is_neg(val)
    IN  set_v(set_c(set_z(set_n(c2, v_neg), val = Zero32), ge_u32(va, vb)),
              (a_neg # b_neg) /\ (a_neg # v_neg))

orr(M, i, c) ==
    LET vb  == value(M, i, c)
        c1  == debug_assert(c, Mode1_is_valid(M, i, 12, FALSE))
        val == or32(reg(c, rn(i)), vb)
    IN  set_reg(c1, rd(i), val)

orrs(M, i, c) ==
    LET vc  == value_carry(M, i, c)
        c1  == debug_assert(after_vc(c, vc), Mode1_is_valid(M, i, 12, TRUE))
        c2  == s_pc_target(c1, i)
        val == or32(reg(c, rn(i)), vc.val)
    IN  set_c(set_z(set_n(set_reg(c2, rd(i), val), is_neg(val)),
                    val = Zero32), vc.carry)

mov(M, i, c) ==
    LET val == value(M, i, c)
        c1  == debug_assert(c, Mode1_is_valid(M, i, 13, FALSE))
        c2  == rn_should_be_zero(c1, i, "CMP instruction with non-0 Rn")
    IN  set_reg(c2, rd(i), val)

\* movs leaving the C flag as it was
movs_carry_kept(M, i, c) ==
    LET vc  == value_carry(M, i, c)
        c1  == debug_assert(after_vc(c, vc), Mode1_is_valid(M, i, 13, TRUE))
        c2  == s_pc_target(c1, i)
        val == vc.val
    IN  set_c(set_z(set_n(set_reg(c2, rd(i), val), is_neg(val)),
                    val = Zero32), c.c)

movs(M, i, c) ==
    LET vc  == value_carry(M, i, c)
        c1  == debug_assert(after_vc(c, vc), Mode1_is_valid(M, i, 13, TRUE))
        c2  == s_pc_target(c1, i)
        val == vc.val
    IN  set_c(set_z(set_n(set_reg(c2, rd(i), val), is_neg(val)),
                    val = Zero32), vc.carry)

bic(M, i, c) ==
    LET vb  == value(M, i, c)
        c1  == debug_assert(c, Mode1_is_valid(M, i, 14, FALSE))
        val == and32(reg(c, rn(i)), not32(vb))
    IN  set_reg(c1, rd(i), val)

bics(M, i, c) ==
    LET vc  == value_carry(M, i, c)
        c1  == debug_assert(after_vc(c, vc), Mode1_is_valid(M, i, 14, TRUE))
        c2  == s_pc_target(c1, i)
        val == and32(reg(c, rn(i)), not32(vc.val))
    IN  set_c(set_z(set_n(set_reg(c2, rd(i), val), is_neg(val)),
                    val = Zero32), vc.carry)

mvn(M, i, c) ==
    LET val == value(M, i, c)
        c1  == debug_assert(c, Mode1_is_valid(M, i, 15, FALSE))
        c2  == rn_should_be_zero(c1, i, "MVN instruction with non-0 Rn")
    IN  set_reg(c2, rd(i), not32(val))

\* mul setting N and Z whatever its S argument
mul_flags_always(S, i, c) ==
    LET d   == rn(i)
        c1  == IF is_pc(d) \/ is_pc(rm(i)) \/ is_pc(rs(i))
               THEN panic(c, "Unpredictable MUL") ELSE c
        val == wrapping_mul(reg(c, rm(i)), reg(c, rs(i)))
        c2  == set_reg(c1, d, val)
    IN  IF TRUE THEN set_z(set_n(c2, is_neg(val)), val = Zero32) ELSE c2

\* mul::<S> and mla::<S>; S is TRUE for Set
mul(S, i, c) ==
    LET d   == rn(i)
        c1  == IF is_pc(d) \/ is_pc(rm(i)) \/ is_pc(rs(i))
               THEN panic(c, "Unpredictable MUL") ELSE c
        val == wrapping_mul(reg(c, rm(i)), reg(c, rs(i)))
        c2  == set_reg(c1, d, val)
    IN  IF S THEN set_z(set_n(c2, is_neg(val)), val = Zero32) ELSE c2

mla(S, i, c) ==
    LET d   == rn(i)
        acc == rd(i)
        c1  == IF is_pc(d) \/ is_pc(rm(i)) \/ is_pc(rs(i)) \/ is_pc(acc)
               THEN panic(c, "Unpredictable MLA") ELSE c
        val == wrapping_add(wrapping_mul(reg(c, rm(i)), reg(c, rs(i))),
                            reg(c, acc))
        c2  == set_reg(c1, d, val)
    IN  IF S THEN set_z(set_n(c2, is_neg(val)), val = Zero32) ELSE c2

(***************************************************************************)
(* Addressing modes 2 and 3.  address returns the cpu after the evaluator  *)
(* (base writeback applied, or panicked) and the effective address.  U is  *)
(* TRUE for Set (offset added).                                            *)
(***************************************************************************)
AD(c, addr) == [cpu |-> c, addr |-> addr]

base_offset(U, base, offset) ==
    IF U THEN wrapping_add(base, offset) ELSE wrapping_sub(base, offset)

Mode2Imm_address(U, i, c) ==
    LET offset == U32(Bits(i, 0, 12))
        base   == reg(c, rn(i))
    IN  AD(c, base_offset(U, base, offset))

Mode2ImmPre_address(U, i, c) ==
    LET offset == U32(Bits(i, 0, 12))
        c1     == IF is_pc(rn(i)) THEN panic(c, "PC pre-indexed") ELSE c
        c2     == IF rd(i) = rn(i)
                  THEN panic(c1, "Writeback indexing with Rd == Rn") ELSE c1
        base   == reg(c, rn(i))
        addr   == base_offset(U, base, offset)
    IN  AD(set_reg(c2, rn(i), addr), addr)

\* Mode2ImmPost::address returning the updated base, as the pre-indexed form does
Mode2ImmPost_address_returns_updated(U, i, c) ==
    LET offset == U32(Bits(i, 0, 12))
        c1     == IF is_pc(rn(i)) THEN panic(c, "PC post-indexed") ELSE c
        c2     == IF rd(i) = rn(i)
                  THEN panic(c1, "Writeback indexing with Rd == Rn") ELSE c1
        base   == reg(c, rn(i))
        addr   == base_offset(U, base, offset)
    IN  AD(set_reg(c2, rn(i), addr), addr)

Mode2ImmPost_address(U, i, c) ==
    LET offset == U32(Bits(i, 0, 12))
        c1     == IF is_pc(rn(i)) THEN panic(c, "PC post-indexed") ELSE c
        c2     == IF rd(i) = rn(i)
                  THEN panic(c1, "Writeback indexing with Rd == Rn") ELSE c1
        base   == reg(c, rn(i))
        addr   == base_offset(U, base, offset)
    IN  AD(set_reg(c2, rn(i), addr), base)

Mode2LslReg_address(U, i, c) ==
    LET shift  == Bits(i, 7, 5)
        offset == shl(reg(c, rm(i)), shift)
        base   == reg(c, rn(i))
    IN  AD(c, base_offset(U, base, offset))

Mode2LslRegPre_address(U, i, c) ==
    LET shift  == Bits(i, 7, 5)
        offset == shl(reg(c, rm(i)), shift)
        base   == reg(c, rn(i))
        addr   == base_offset(U, base, offset)
    IN  AD(set_reg(c, rn(i), addr), addr)

mode3_offset(i) == U32((Bits(i, 8, 4) * 16) + Bits(i, 0, 4))

Mode3Imm_address(U, i, c) ==
    LET base == reg(c, rn(i))
    IN  AD(c, base_offset(U, base, mode3_offset(i)))

Mode3ImmPre_address(U, i, c) ==
    LET c1   == IF rd(i) = rn(i)
                THEN panic(c, "Writeback indexing with Rd == Rn") ELSE c
        base == reg(c, rn(i))
        addr == base_offset(U, base, mode3_offset(i))
    IN  AD(set_reg(c1, rn(i), addr), addr)

Mode3ImmPost_address(U, i, c) ==
    LET c1   == IF rd(i) = rn(i)
                THEN panic(c, "Writeback indexing with Rd == Rn") ELSE c
        base == reg(c, rn(i))
        wb   == base_offset(U, base, mode3_offset(i))
    IN  AD(set_reg(c1, rn(i), wb), base)

Mode3Reg_address(U, i, c) ==
    LET base   == reg(c, rn(i))
        offset == reg(c, rm(i))
    IN  AD(c, base_offset(U, base, offset))

\* M::address::<U> for the evaluator named M
address(M, U, i, c) ==
    CASE M = "Mode2Imm"       -> Mode2Imm_address(U, i, c)
      [] M = "Mode2ImmPre"    -> Mode2ImmPre_address(U, i, c)
      [] M = "Mode2ImmPost"   -> Mode2ImmPost_address(U, i, c)
      [] M = "Mode2LslReg"    -> Mode2LslReg_address(U, i, c)
      [] M = "Mode2LslRegPre" -> Mode2LslRegPre_address(U, i, c)
      [] M = "Mode3Imm"       -> Mode3Imm_address(U, i, c)
      [] M = "Mode3ImmPre"    -> Mode3ImmPre_address(U, i, c)
      [] M = "Mode3ImmPost"   -> Mode3ImmPost_address(U, i, c)
      [] M = "Mode3Reg"       -> Mode3Reg_address(U, i, c)

flag(x) == IF x THEN 1 ELSE 0

\* M::is_valid::<U>(instruction, load, byte) for addressing mode 2
Mode2_is_valid(M, U, i, ld, byte) ==
    /\ Bits(i, 20, 1) = flag(ld)
    /\ Bits(i, 22, 1) = flag(byte)
    /\ Bits(i, 23, 1) = flag(U)
    /\ CASE M = "Mode2Imm"       -> Bits(i, 24, 4) = 5
         [] M = "Mode2ImmPre"    -> Bits(i, 24, 4) = 5
         [] M = "Mode2ImmPost"   -> Bits(i, 24, 4) = 4
         [] M = "Mode2LslReg"    -> /\ Bits(i, 24, 4) = 7
                                    /\ Bits(i, 21, 1) = 0
                                    /\ Bits(i, 4, 3) = 0
         [] M = "Mode2LslRegPre" -> /\ Bits(i, 24, 4) = 7
                                    /\ Bits(i, 21, 1) = 1
                                    /\ Bits(i, 4, 3) = 0

\* M::is_valid::<U>(instruction, load, byte, signed) for addressing mode 3
Mode3_is_valid(M, U, i, ld, byte, signed) ==
    /\ Bits(i, 23, 1) = flag(U)
    /\ Bits(i, 20, 1) = flag(ld)
    /\ Bits(i, 6, 1) = flag(signed)
    /\ Bits(i, 5, 1) = flag(~byte)
    /\ Bits(i, 4, 1) = 1
    /\ CASE M = "Mode3Imm"     -> /\ Bits(i, 24, 4) = 1
                                  /\ Bits(i, 21, 2) = 2
                                  /\ Bits(i, 7, 1) = 1
         [] M = "Mode3ImmPre"  -> /\ Bits(i, 24, 4) = 1
                                  /\ Bits(i, 21, 2) = 3
                                  /\ Bits(i, 7, 1) = 1
         [] M = "Mode3ImmPost" -> /\ Bits(i, 24, 4) = 0
                                  /\ Bits(i, 21, 2) = 2
                                  /\ Bits(i, 7, 1) = 1
         [] M = "Mode3Reg"     -> /\ Bits(i, 24, 4) = 1
                                  /\ Bits(i, 21, 2) = 0
                                  /\ Bits(i, 7, 5) = 1

\* (x as i16) as u32 and (x as i8) as u32
sign_extend16(x) == [k \in 0..31 |-> IF k < 16 THEN x[k] ELSE x[15]]
sign_extend8(x)  == [k \in 0..31 |-> IF k < 8 THEN x[k] ELSE x[7]]

(***************************************************************************)
(* Transfer kernels                                                        *)
(***************************************************************************)
\* ldr without the rotation of the loaded word
ldr_unrotated(M, U, i, c) ==
    LET ad   == address(M, U, i, c)
        c1   == debug_assert(ad.cpu, Mode2_is_valid(M, U, i, TRUE, FALSE))
        rot  == Bits(ad.addr, 0, 2) * 8
        addr == and32(ad.addr, not32(U32(3)))
        ld   == load(c1, Word, addr)
    IN  set_reg_pc_mask(ld.cpu, rd(i), ld.val)

ldr(M, U, i, c) ==
    LET ad   == address(M, U, i, c)
        c1   == debug_assert(ad.cpu, Mode2_is_valid(M, U, i, TRUE, FALSE))
        rot  == Bits(ad.addr, 0, 2) * 8
        addr == and32(ad.addr, not32(U32(3)))
        ld   == load(c1, Word, addr)
    IN  set_reg_pc_mask(ld.cpu, rd(i), rotate_right(ld.val, rot))

str(M, U, i, c) ==
    LET ad == address(M, U, i, c)
        c1 == debug_assert(ad.cpu, Mode2_is_valid(M, U, i, FALSE, FALSE))
        c2 == IF is_pc(rd(i)) THEN panic(c1, "PC stored in STR") ELSE c1
    IN  store(c2, Word, ad.addr, reg(ad.cpu, rd(i)))

ldrb(M, U, i, c) ==
    LET ad == address(M, U, i, c)
        c1 == debug_assert(ad.cpu, Mode2_is_valid(M, U, i, TRUE, TRUE))
        ld == load(c1, Byte, ad.addr)
    IN  set_reg_pc_mask(ld.cpu, rd(i), ld.val)

strb(M, U, i, c) ==
    LET ad == address(M, U, i, c)
        c1 == debug_assert(ad.cpu, Mode2_is_valid(M, U, i, FALSE, TRUE))
        c2 == IF is_pc(rd(i)) THEN panic(c1, "PC stored in STRB") ELSE c1
    IN  store(c2, Byte, ad.addr, reg(ad.cpu, rd(i)))

ldrh(M, U, i, c) ==
    LET ad == address(M, U, i, c)
        c1 == debug_assert(ad.cpu, Mode3_is_valid(M, U, i, TRUE, FALSE, FALSE))
        ld == load(c1, HalfWord, ad.addr)
    IN  set_reg(ld.cpu, rd(i), ld.val)

\* ldrsh without the sign extension
ldrsh_zero_extended(M, U, i, c) ==
    LET ad == address(M, U, i, c)
        c1 == debug_assert(ad.cpu, Mode3_is_valid(M, U, i, TRUE, FALSE, TRUE))
        ld == load(c1, HalfWord, ad.addr)
    IN  set_reg(ld.cpu, rd(i), ld.val)

ldrsh(M, U, i, c) ==
    LET ad == address(M, U, i, c)
        c1 == debug_assert(ad.cpu, Mode3_is_valid(M, U, i, TRUE, FALSE, TRUE))
        ld == load(c1, HalfWord, ad.addr)
    IN  set_reg(ld.cpu, rd(i), sign_extend16(ld.val))

strh(M, U, i, c) ==
    LET ad == address(M, U, i, c)
        c1 == debug_assert(ad.cpu, Mode3_is_valid(M, U, i, FALSE, FALSE, FALSE))
    IN  store(c1, HalfWord, ad.addr, reg(ad.cpu, rd(i)))

ldrsb(M, U, i, c) ==
    LET ad == address(M, U, i, c)
        c1 == debug_assert(ad.cpu, Mode3_is_valid(M, U, i, TRUE, TRUE, TRUE))
        ld == load(c1, Byte, ad.addr)
    IN  set_reg(ld.cpu, rd(i), sign_extend8(ld.val))

(***************************************************************************)
(* Block data transfer.  U, P, W are TRUE for Set.                         *)
(***************************************************************************)
RECURSIVE count_ones_from(_, _)
count_ones_from(list, k) ==
    IF k = 16 THEN 0 ELSE flag(Bit(list, k)) + count_ones_from(list, k + 1)

count_ones(list) == count_ones_from(list, 0)

\* base + 4 with overflow checks: a build with them panics on wrap-around
checked_add4(c, x) ==
    LET r == overflowing_add(x, U32(4))
    IN  [cpu |-> IF r[2] /\ c.debug
                 THEN panic(c, "attempt to add with overflow") ELSE c,
         val |-> r[1]]

\* mode4_start_wb with the decrement-before and decrement-after starts swapped
mode4_start_wb_db_as_da(U, P, base, list, c) ==
    LET len_bytes == U32(count_ones(list) * 4)
    IN  IF U
        THEN LET s == IF P THEN checked_add4(c, base)
                      ELSE [cpu |-> c, val |-> base]
             IN  [cpu |-> s.cpu, start |-> s.val,
                  wb |-> wrapping_add(base, len_bytes)]
        ELSE LET s == IF ~P THEN [cpu |-> c, val |-> wrapping_sub(base, len_bytes)]
                      ELSE checked_add4(c, wrapping_sub(base, len_bytes))
             IN  [cpu |-> s.cpu, start |-> s.val,
                  wb |-> wrapping_sub(base, len_bytes)]

\* mode4_start_wb::<U, P>(base, list): the cpu (panicked where a checked
\* addition overflowed), the start address and the writeback value
mode4_start_wb(U, P, base, list, c) ==
    LET len_bytes == U32(count_ones(list) * 4)
    IN  IF U
        THEN LET s == IF P THEN checked_add4(c, base)
                      ELSE [cpu |-> c, val |-> base]
             IN  [cpu |-> s.cpu, start |-> s.val,
                  wb |-> wrapping_add(base, len_bytes)]
        ELSE LET s == IF P THEN [cpu |-> c, val |-> wrapping_sub(base, len_bytes)]
                      ELSE checked_add4(c, wrapping_sub(base, len_bytes))
             IN  [cpu |-> s.cpu, start |-> s.val,
                  wb |-> wrapping_sub(base, len_bytes)]

mode4_is_valid(i, P, U, S, W, L) ==
    /\ Bits(i, 25, 3) = 4
    /\ Bits(i, 24, 1) = flag(P)
    /\ Bits(i, 23, 1) = flag(U)
    /\ Bits(i, 22, 1) = flag(S)
    /\ Bits(i, 21, 1) = flag(W)
    /\ Bits(i, 20, 1) = flag(L)

\* The LDM / STM checks without the base-in-list rule
mode4_unpredictable_base_listed(W, i) ==
    \/ register_list(i) = 0
    \/ is_pc(rn(i))
    \/ FALSE

mode4_unpredictable(W, i) ==
    \/ register_list(i) = 0
    \/ is_pc(rn(i))
    \/ W /\ Bit(register_list(i), rn(i))

RECURSIVE ldm_loop(_, _, _, _)
\* for i in 0..16 of ldm, from register k on
ldm_loop(c, list, k, addr) ==
    IF k = 16 THEN c
    ELSE IF Bit(list, k)
         THEN LET ld == load(c, Word, addr)
              IN  ldm_loop(set_reg_pc_mask(ld.cpu, k, ld.val), list, k + 1,
                           wrapping_add(addr, U32(4)))
         ELSE ldm_loop(c, list, k + 1, addr)

ldm(U, P, W, i, c) ==
    LET list == register_list(i)
        c1   == debug_assert(c, mode4_is_valid(i, P, U, FALSE, W, TRUE))
        c2   == IF mode4_unpredictable(W, i)
                THEN panic(c1, "Unpredictable LDM") ELSE c1
        sw   == mode4_start_wb(U, P, reg(c, rn(i)), list, c2)
        c3   == ldm_loop(sw.cpu, list, 0, sw.start)
    IN  IF W THEN set_reg(c3, rn(i), sw.wb) ELSE c3

RECURSIVE ldms_loop(_, _, _, _, _)
\* for i in 0..16 of ldms, from register k on; returns the cpu and the
\* deferred PC word
ldms_loop(c, list, k, addr, pc) ==
    IF k = 16 THEN [cpu |-> c, pc |-> pc]
    ELSE IF Bit(list, k)
         THEN LET ld == load(c, Word, addr)
                  nx == wrapping_add(addr, U32(4))
              IN  IF Bit(list, 15)
                  THEN IF k = 15
                       THEN LET ld2 == load(ld.cpu, Word, addr)
                            IN  ldms_loop(ld2.cpu, list, k + 1, nx, ld2.val)
                       ELSE ldms_loop(set_reg(ld.cpu, k, ld.val), list, k + 1,
                                      nx, pc)
                  ELSE ldms_loop(panic(ld.cpu, "not implemented"), list, k + 1,
                                 nx, pc)
         ELSE ldms_loop(c, list, k + 1, addr, pc)

\* ldms setting PC and CPSR before the base writeback
ldms_pc_before_writeback(U, P, W, i, c) ==
    LET list      == register_list(i)
        c1        == debug_assert(c, mode4_is_valid(i, P, U, TRUE, W, TRUE))
        c2        == IF mode4_unpredictable(W, i)
                     THEN panic(c1, "Unpredictable LDM") ELSE c1
        load_spsr == Bit(list, 15)
        c3        == IF ~load_spsr THEN debug_assert(c2, ~W) ELSE c2
        sw        == mode4_start_wb(U, P, reg(c, rn(i)), list, c3)
        lp        == ldms_loop(sw.cpu, list, 0, sw.start, Zero32)
        c4        == IF load_spsr THEN set_pc_cpsr(lp.cpu, lp.pc, lp.cpu.spsr)
                     ELSE lp.cpu
    IN  IF W THEN set_reg(c4, rn(i), sw.wb) ELSE c4

ldms(U, P, W, i, c) ==
    LET list      == register_list(i)
        c1        == debug_assert(c, mode4_is_valid(i, P, U, TRUE, W, TRUE))
        c2        == IF mode4_unpredictable(W, i)
                     THEN panic(c1, "Unpredictable LDM") ELSE c1
        load_spsr == Bit(list, 15)
        c3        == IF ~load_spsr THEN debug_assert(c2, ~W) ELSE c2
        sw        == mode4_start_wb(U, P, reg(c, rn(i)), list, c3)
        lp        == ldms_loop(sw.cpu, list, 0, sw.start, Zero32)
        c4        == IF W THEN set_reg(lp.cpu, rn(i), sw.wb) ELSE lp.cpu
    IN  IF load_spsr THEN set_pc_cpsr(c4, lp.pc, c4.spsr) ELSE c4

RECURSIVE stm_loop(_, _, _, _, _, _, _)
\* for i in 0..16 of stm, from register k on
stm_loop(c, W, base_reg, list, k, addr, first) ==
    IF k = 16 THEN c
    ELSE IF Bit(list, k)
         THEN LET c1 == IF W /\ k = base_reg /\ ~first
                        THEN panic(c, "Unpredictable STM") ELSE c
                  c2 == store(c1, Word, addr, reg(c, k))
              IN  stm_loop(c2, W, base_reg, list, k + 1,
                           wrapping_add(addr, U32(4)), FALSE)
         ELSE stm_loop(c, W, base_reg, list, k + 1, addr, first)

stm(U, P, W, i, c) ==
    LET list == register_list(i)
        c1   == debug_assert(c, mode4_is_valid(i, P, U, FALSE, W, FALSE))
        c2   == IF mode4_unpredictable(W, i)
                THEN panic(c1, "Unpredictable LDM") ELSE c1
        c3   == IF Bit(list, 15)
                THEN panic(c2, "Implementation-defined STM") ELSE c2
        sw   == mode4_start_wb(U, P, reg(c, rn(i)), list, c3)
        c4   == stm_loop(sw.cpu, W, rn(i), list, 0, sw.start, TRUE)
    IN  IF W THEN set_reg(c4, rn(i), sw.wb) ELSE c4

(***************************************************************************)
(* Status-register transfer, branches and SWI                              *)
(***************************************************************************)
\* (instruction.0 & 0xf0fff) == 0xf0000
mrs_fields_ok(i) == Bits(i, 16, 4) = 15 /\ Bits(i, 0, 12) = 0

mrs_cpsr(i, c) ==
    LET c1 == IF ~mrs_fields_ok(i)
              THEN panic(c, "Invalid MRS instruction") ELSE c
    IN  set_reg(c1, rd(i), cpsr(c))

msr_cpsr_kernel(i, c) ==
    LET mask == msr_field_mask(i)
        c1   == IF Bits(i, 8, 8) # 240
                THEN panic(c, "Invalid MSR instruction") ELSE c
    IN  msr_cpsr(c1, reg(c, rm(i)), mask)

bx(i, c) ==
    LET c1      == IF Bits(i, 8, 12) # 4095
                   THEN panic(c, "Invalid BX instruction") ELSE c
        target  == reg(c, rm(i))
        thumb   == target[0]
        addr    == and32(target, not32(U32(1)))
    IN  set_pc_thumb(c1, addr, thumb)

mrs_spsr(i, c) ==
    LET c1 == IF is_pc(rd(i)) \/ ~mrs_fields_ok(i)
              THEN panic(c, "Invalid MSR instruction") ELSE c
    IN  set_reg(c1, rd(i), psr_word(c.spsr))

b(i, c) ==
    LET offset == branch_imm_offset(i)
        pc     == wrapping_add(reg(c, 15), offset)
    IN  set_pc(c, pc)

\* bl taking the return address from R15, two instructions ahead
bl_lr_from_r15(i, c) ==
    LET offset == branch_imm_offset(i)
        pc     == wrapping_add(c.registers[15], offset)
        ra     == c.registers[15]
    IN  set_pc(set_reg(c, 14, ra), pc)

bl(i, c) ==
    LET offset == branch_imm_offset(i)
        pc     == wrapping_add(c.registers[15], offset)
        ra     == c.next_pc
    IN  set_pc(set_reg(c, 14, ra), pc)

swi(i, c) == swi_trap(c)

unimplemented(i, c) == panic(c, "Unimplemented instruction")

(***************************************************************************)
(* OPCODE_LUT: the 4096-slot dispatch table.  An entry is the kernel       *)
(* followed by its generic arguments.                                      *)
(***************************************************************************)
OPCODE_LUT ==
    [op \in 0..4095 |->
        CASE op \in {\h000, \h008} -> <<"and", "Mode1LslImm">>
          [] op \in {\h001} -> <<"and", "Mode1LslReg">>
          [] op \in {\h002, \h00A} -> <<"and", "Mode1LsrImm">>
          [] op \in {\h003} -> <<"and", "Mode1LsrReg">>
          [] op \in {\h004, \h00C} -> <<"and", "Mode1AsrImm">>
          [] op \in {\h005} -> <<"and", "Mode1AsrReg">>
          [] op \in {\h006} -> <<"and", "Mode1RorImm">>
          [] op \in {\h007} -> <<"and", "Mode1RorReg">>
          [] op \in {\h009} -> <<"mul", "Clear">>
          [] op \in {\h019} -> <<"mul", "Set">>
          [] op \in {\h020, \h028} -> <<"eor", "Mode1LslImm">>
          [] op \in {\h021} -> <<"eor", "Mode1LslReg">>
          [] op \in {\h022, \h02A} -> <<"eor", "Mode1LsrImm">>
          [] op \in {\h023} -> <<"eor", "Mode1LsrReg">>
          [] op \in {\h024, \h02C} -> <<"eor", "Mode1AsrImm">>
          [] op \in {\h025} -> <<"eor", "Mode1AsrReg">>
          [] op \in {\h026} -> <<"eor", "Mode1RorImm">>
          [] op \in {\h027} -> <<"eor", "Mode1RorReg">>
          [] op \in {\h029} -> <<"mla", "Clear">>
          [] op \in {\h034, \h03C} -> <<"eors", "Mode1AsrImm">>
          [] op \in {\h040, \h048} -> <<"sub", "Mode1LslImm">>
          [] op \in {\h042, \h04A} -> <<"sub", "Mode1LsrImm">>
          [] op \in {\h044, \h04C} -> <<"sub", "Mode1AsrImm">>
          [] op \in {\h050, \h058} -> <<"subs", "Mode1LslImm">>
          [] op \in {\h052, \h05A} -> <<"subs", "Mode1LsrImm">>
          [] op \in {\h060, \h068} -> <<"rsb", "Mode1LslImm">>
          [] op \in {\h062, \h06A} -> <<"rsb", "Mode1LsrImm">>
          [] op \in {\h070, \h078} -> <<"rsbs", "Mode1LslImm">>
          [] op \in {\h072, \h07A} -> <<"rsbs", "Mode1LsrImm">>
          [] op \in {\h080, \h088} -> <<"add", "Mode1LslImm">>
          [] op \in {\h081} -> <<"add", "Mode1LslReg">>
          [] op \in {\h082, \h08A} -> <<"add", "Mode1LsrImm">>
          [] op \in {\h083} -> <<"add", "Mode1LsrReg">>
          [] op \in {\h084, \h08C} -> <<"add", "Mode1AsrImm">>
          [] op \in {\h085} -> <<"add", "Mode1AsrReg">>
          [] op \in {\h086} -> <<"add", "Mode1RorImm">>
          [] op \in {\h087} -> <<"add", "Mode1RorReg">>
          [] op \in {\h090, \h098} -> <<"adds", "Mode1LslImm">>
          [] op \in {\h091} -> <<"adds", "Mode1LslReg">>
          [] op \in {\h092, \h09A} -> <<"adds", "Mode1LsrImm">>
          [] op \in {\h093} -> <<"adds", "Mode1LsrReg">>
          [] op \in {\h094, \h09C} -> <<"adds", "Mode1AsrImm">>
          [] op \in {\h095} -> <<"adds", "Mode1AsrReg">>
          [] op \in {\h096} -> <<"adds", "Mode1RorImm">>
          [] op \in {\h097} -> <<"adds", "Mode1RorReg">>
          [] op \in {\h0A0, \h0A8} -> <<"adc", "Mode1LslImm">>
          [] op \in {\h0CB} -> <<"strh", "Mode3ImmPost", "Set">>
          [] op \in {\h0DB} -> <<"ldrh", "Mode3ImmPost", "Set">>
          [] op \in {\h100} -> <<"mrs_cpsr">>
          [] op \in {\h110, \h118} -> <<"tst", "Mode1LslImm">>
          [] op \in {\h111} -> <<"tst", "Mode1LslReg">>
          [] op \in {\h112, \h11A} -> <<"tst", "Mode1LsrImm">>
          [] op \in {\h113} -> <<"tst", "Mode1LsrReg">>
          [] op \in {\h114, \h11C} -> <<"tst", "Mode1AsrImm">>
          [] op \in {\h115} -> <<"tst", "Mode1AsrReg">>
          [] op \in {\h116, \h11E} -> <<"tst", "Mode1RorImm">>
          [] op \in {\h117} -> <<"tst", "Mode1RorReg">>
          [] op \in {\h120} -> <<"msr_cpsr">>
          [] op \in {\h121} -> <<"bx">>
          [] op \in {\h130, \h138} -> <<"teq", "Mode1LslImm">>
          [] op \in {\h132, \h13A} -> <<"teq", "Mode1LsrImm">>
          [] op \in {\h140} -> <<"mrs_spsr">>
          [] op \in {\h14B} -> <<"strh", "Mode3Imm", "Clear">>
          [] op \in {\h150, \h158} -> <<"cmp", "Mode1LslImm">>
          [] op \in {\h152, \h15A} -> <<"cmp", "Mode1LsrImm">>
          [] op \in {\h154, \h15C} -> <<"cmp", "Mode1AsrImm">>
          [] op \in {\h156} -> <<"cmp", "Mode1RorImm">>
          [] op \in {\h15B} -> <<"ldrh", "Mode3Imm", "Clear">>
          [] op \in {\h15F} -> <<"ldrsh", "Mode3Imm", "Clear">>
          [] op \in {\h16B} -> <<"strh", "Mode3ImmPre", "Clear">>
          [] op \in {\h180, \h188} -> <<"orr", "Mode1LslImm">>
          [] op \in {\h181} -> <<"orr", "Mode1LslReg">>
          [] op \in {\h182, \h18A} -> <<"orr", "Mode1LsrImm">>
          [] op \in {\h183} -> <<"orr", "Mode1LsrReg">>
          [] op \in {\h184, \h18C} -> <<"orr", "Mode1AsrImm">>
          [] op \in {\h185} -> <<"orr", "Mode1AsrReg">>
          [] op \in {\h186, \h18E} -> <<"orr", "Mode1RorImm">>
          [] op \in {\h187} -> <<"orr", "Mode1RorReg">>
          [] op \in {\h18B} -> <<"strh", "Mode3Reg", "Set">>
          [] op \in {\h190, \h198} -> <<"orrs", "Mode1LslImm">>
          [] op \in {\h191} -> <<"orrs", "Mode1LslReg">>
          [] op \in {\h192, \h19A} -> <<"orrs", "Mode1LsrImm">>
          [] op \in {\h193} -> <<"orrs", "Mode1LsrReg">>
          [] op \in {\h194, \h19C} -> <<"orrs", "Mode1AsrImm">>
          [] op \in {\h195} -> <<"orrs", "Mode1AsrReg">>
          [] op \in {\h196} -> <<"orrs", "Mode1RorImm">>
          [] op \in {\h197} -> <<"orrs", "Mode1RorReg">>
          [] op \in {\h19B} -> <<"ldrh", "Mode3Reg", "Set">>
          [] op \in {\h19D} -> <<"ldrsb", "Mode3Reg", "Set">>
          [] op \in {\h19F} -> <<"ldrsh", "Mode3Reg", "Set">>
          [] op \in {\h1A0, \h1A8} -> <<"mov", "Mode1LslImm">>
          [] op \in {\h1A1} -> <<"mov", "Mode1LslReg">>
          [] op \in {\h1A2, \h1AA} -> <<"mov", "Mode1LsrImm">>
          [] op \in {\h1A3} -> <<"mov", "Mode1LsrReg">>
          [] op \in {\h1A4, \h1AC} -> <<"mov", "Mode1AsrImm">>
          [] op \in {\h1A5} -> <<"mov", "Mode1AsrReg">>
          [] op \in {\h1A6} -> <<"mov", "Mode1RorImm">>
          [] op \in {\h1A7} -> <<"mov", "Mode1RorReg">>
          [] op \in {\h1B0, \h1B8} -> <<"movs", "Mode1LslImm">>
          [] op \in {\h1B1} -> <<"movs", "Mode1LslReg">>
          [] op \in {\h1B2, \h1BA} -> <<"movs", "Mode1LsrImm">>
          [] op \in {\h1B3} -> <<"movs", "Mode1LsrReg">>
          [] op \in {\h1B4, \h1BC} -> <<"movs", "Mode1AsrImm">>
          [] op \in {\h1B6} -> <<"movs", "Mode1RorImm">>
          [] op \in {\h1C0, \h1C8} -> <<"bic", "Mode1LslImm">>
          [] op \in {\h1C1} -> <<"bic", "Mode1LslReg">>
          [] op \in {\h1C2, \h1CA} -> <<"bic", "Mode1LsrImm">>
          [] op \in {\h1C3} -> <<"bic", "Mode1LsrReg">>
          [] op \in {\h1C4, \h1CC} -> <<"bic", "Mode1AsrImm">>
          [] op \in {\h1C5} -> <<"bic", "Mode1AsrReg">>
          [] op \in {\h1C6} -> <<"bic", "Mode1RorImm">>
          [] op \in {\h1C7} -> <<"bic", "Mode1RorReg">>
          [] op \in {\h1CB} -> <<"strh", "Mode3Imm", "Set">>
          [] op \in {\h1D0, \h1D8} -> <<"bics", "Mode1LslImm">>
          [] op \in {\h1D1} -> <<"bics", "Mode1LslReg">>
          [] op \in {\h1DB} -> <<"ldrh", "Mode3Imm", "Set">>
          [] op \in {\h1DD} -> <<"ldrsb", "Mode3Imm", "Set">>
          [] op \in {\h1DF} -> <<"ldrsh", "Mode3Imm", "Set">>
          [] op \in {\h1E0, \h1E8} -> <<"mvn", "Mode1LslImm">>
          [] op \in {\h1E1} -> <<"mvn", "Mode1LslReg">>
          [] op \in {\h1E2, \h1EA} -> <<"mvn", "Mode1LsrImm">>
          [] op \in {\h1E3} -> <<"mvn", "Mode1LsrReg">>
          [] op \in {\h1E4, \h1EC} -> <<"mvn", "Mode1AsrImm">>
          [] op \in {\h1E6} -> <<"mvn", "Mode1RorImm">>
          [] op \in {\h1FB} -> <<"ldrh", "Mode3ImmPre", "Set">>
          [] op \in \h200..\h20F -> <<"and", "Mode1Imm">>
          [] op \in \h210..\h21F -> <<"ands", "Mode1Imm">>
          [] op \in \h220..\h22F -> <<"eor", "Mode1Imm">>
          [] op \in \h230..\h23F -> <<"eors", "Mode1Imm">>
          [] op \in \h240..\h24F -> <<"sub", "Mode1Imm">>
          [] op \in \h250..\h25F -> <<"subs", "Mode1Imm">>
          [] op \in \h260..\h26F -> <<"rsb", "Mode1Imm">>
          [] op \in \h270..\h27F -> <<"rsbs", "Mode1Imm">>
          [] op \in \h280..\h28F -> <<"add", "Mode1Imm">>
          [] op \in \h290..\h29F -> <<"adds", "Mode1Imm">>
          [] op \in \h310..\h31F -> <<"tst", "Mode1Imm">>
          [] op \in \h350..\h35F -> <<"cmp", "Mode1Imm">>
          [] op \in \h370..\h37F -> <<"cmn", "Mode1Imm">>
          [] op \in \h380..\h38F -> <<"orr", "Mode1Imm">>
          [] op \in \h390..\h39F -> <<"orrs", "Mode1Imm">>
          [] op \in \h3A0..\h3AF -> <<"mov", "Mode1Imm">>
          [] op \in \h3C0..\h3CF -> <<"bic", "Mode1Imm">>
          [] op \in \h3D0..\h3DF -> <<"bics", "Mode1Imm">>
          [] op \in \h3E0..\h3EF -> <<"mvn", "Mode1Imm">>
          [] op \in \h440..\h44F -> <<"strb", "Mode2ImmPost", "Clear">>
          [] op \in \h480..\h48F -> <<"str", "Mode2ImmPost", "Set">>
          [] op \in \h490..\h49F -> <<"ldr", "Mode2ImmPost", "Set">>
          [] op \in \h4C0..\h4CF -> <<"strb", "Mode2ImmPost", "Set">>
          [] op \in \h4D0..\h4DF -> <<"ldrb", "Mode2ImmPost", "Set">>
          [] op \in \h500..\h50F -> <<"str", "Mode2Imm", "Clear">>
          [] op \in \h510..\h51F -> <<"ldr", "Mode2Imm", "Clear">>
          [] op \in \h520..\h52F -> <<"str", "Mode2ImmPre", "Clear">>
          [] op \in \h530..\h53F -> <<"ldr", "Mode2ImmPre", "Clear">>
          [] op \in \h540..\h54F -> <<"strb", "Mode2Imm", "Clear">>
          [] op \in \h550..\h55F -> <<"ldrb", "Mode2Imm", "Clear">>
          [] op \in \h580..\h58F -> <<"str", "Mode2Imm", "Set">>
          [] op \in \h590..\h59F -> <<"ldr", "Mode2Imm", "Set">>
          [] op \in \h5A0..\h5AF -> <<"str", "Mode2ImmPre", "Set">>
          [] op \in \h5B0..\h5BF -> <<"ldr", "Mode2ImmPre", "Set">>
          [] op \in \h5C0..\h5CF -> <<"strb", "Mode2Imm", "Set">>
          [] op \in \h5D0..\h5DF -> <<"ldrb", "Mode2Imm", "Set">>
          [] op \in \h5E0..\h5EF -> <<"strb", "Mode2ImmPre", "Set">>
          [] op \in \h5F0..\h5FF -> <<"ldrb", "Mode2ImmPre", "Set">>
          [] op \in {\h780, \h788} -> <<"str", "Mode2LslReg", "Set">>
          [] op \in {\h790, \h798} -> <<"ldr", "Mode2LslReg", "Set">>
          [] op \in {\h7B0} -> <<"ldr", "Mode2LslRegPre", "Set">>
          [] op \in {\h7C0, \h7C8} -> <<"strb", "Mode2LslReg", "Set">>
          [] op \in {\h7D0, \h7D8} -> <<"ldrb", "Mode2LslReg", "Set">>
          [] op \in {\h7E0, \h7E8} -> <<"strb", "Mode2LslRegPre", "Set">>
          [] op \in {\h7F0, \h7F8} -> <<"ldrb", "Mode2LslRegPre", "Set">>
          [] op \in \h880..\h88F -> <<"stm", "Set", "Clear", "Clear">>
          [] op \in \h890..\h89F -> <<"ldm", "Set", "Clear", "Clear">>
          [] op \in \h8A0..\h8AF -> <<"stm", "Set", "Clear", "Set">>
          [] op \in \h8B0..\h8BF -> <<"ldm", "Set", "Clear", "Set">>
          [] op \in \h8F0..\h8FF -> <<"ldms", "Set", "Clear", "Set">>
          [] op \in \h910..\h91F -> <<"ldm", "Clear", "Set", "Clear">>
          [] op \in \h920..\h92F -> <<"stm", "Clear", "Set", "Set">>
          [] op \in \hA00..\hAFF -> <<"b">>
          [] op \in \hB00..\hBFF -> <<"bl">>
          [] op \in \hF00..\hFFF -> <<"swi">>
          [] OTHER -> <<"unimplemented">>]

Set(x) == x = "Set"

\* Instruction::decode_and_execute: the handler stored in the slot, called
decode_and_execute(i, c) ==
    LET h  == OPCODE_LUT[opcode(i)]
        k  == h[1]
        c0 == [c EXCEPT !.kernel = h]
    IN  CASE k = "and"   -> and(h[2], i, c0)
          [] k = "ands"  -> ands(h[2], i, c0)
          [] k = "eor"   -> eor(h[2], i, c0)
          [] k = "eors"  -> eors(h[2], i, c0)
          [] k = "sub"   -> sub(h[2], i, c0)
          [] k = "subs"  -> subs(h[2], i, c0)
          [] k = "rsb"   -> rsb(h[2], i, c0)
          [] k = "rsbs"  -> rsbs(h[2], i, c0)
          [] k = "add"   -> add(h[2], i, c0)
          [] k = "adds"  -> adds(h[2], i, c0)
          [] k = "adc"   -> adc(h[2], i, c0)
          [] k = "tst"   -> tst(h[2], i, c0)
          [] k = "teq"   -> teq(h[2], i, c0)
          [] k = "cmp"   -> cmp(h[2], i, c0)
          [] k = "cmn"   -> cmn(h[2], i, c0)
          [] k = "orr"   -> orr(h[2], i, c0)
          [] k = "orrs"  -> orrs(h[2], i, c0)
          [] k = "mov"   -> mov(h[2], i, c0)
          [] k = "movs"  -> movs(h[2], i, c0)
          [] k = "bic"   -> bic(h[2], i, c0)
          [] k = "bics"  -> bics(h[2], i, c0)
          [] k = "mvn"   -> mvn(h[2], i, c0)
          [] k = "mul"   -> mul(Set(h[2]), i, c0)
          [] k = "mla"   -> mla(Set(h[2]), i, c0)
          [] k = "ldr"   -> ldr(h[2], Set(h[3]), i, c0)
          [] k = "str"   -> str(h[2], Set(h[3]), i, c0)
          [] k = "ldrb"  -> ldrb(h[2], Set(h[3]), i, c0)
          [] k = "strb"  -> strb(h[2], Set(h[3]), i, c0)
          [] k = "ldrh"  -> ldrh(h[2], Set(h[3]), i, c0)
          [] k = "ldrsh" -> ldrsh(h[2], Set(h[3]), i, c0)
          [] k = "strh"  -> strh(h[2], Set(h[3]), i, c0)
          [] k = "ldrsb" -> ldrsb(h[2], Set(h[3]), i, c0)
          [] k = "ldm"   -> ldm(Set(h[2]), Set(h[3]), Set(h[4]), i, c0)
          [] k = "ldms"  -> ldms(Set(h[2]), Set(h[3]), Set(h[4]), i, c0)
          [] k = "stm"   -> stm(Set(h[2]), Set(h[3]), Set(h[4]), i, c0)
          [] k = "mrs_cpsr" -> mrs_cpsr(i, c0)
          [] k = "msr_cpsr" -> msr_cpsr_kernel(i, c0)
          [] k = "bx"    -> bx(i, c0)
          [] k = "mrs_spsr" -> mrs_spsr(i, c0)
          [] k = "b"     -> b(i, c0)
          [] k = "bl"    -> bl(i, c0)
          [] k = "swi"   -> swi(i, c0)
          [] OTHER       -> unimplemented(i, c0)

\* The condition table with HI reading only the carry
cond_true_hi_ignores_z(code, c) ==
    CASE code = 0  -> c.z
      [] code = 1  -> ~c.z
      [] code = 2  -> c.c
      [] code = 3  -> ~c.c
      [] code = 4  -> c.n
      [] code = 5  -> ~c.n
      [] code = 6  -> c.v
      [] code = 7  -> ~c.v
      [] code = 8  -> c.c
      [] code = 9  -> ~c.c \/ c.z
      [] code = 10 -> c.n = c.v
      [] code = 11 -> c.n # c.v
      [] code = 12 -> ~c.z /\ (c.n = c.v)
      [] code = 13 -> c.z \/ (c.n # c.v)
      [] code = 14 -> TRUE

\* The condition table of Instruction::execute, for codes 0..14
cond_true(code, c) ==
    CASE code = 0  -> c.z
      [] code = 1  -> ~c.z
      [] code = 2  -> c.c
      [] code = 3  -> ~c.c
      [] code = 4  -> c.n
      [] code = 5  -> ~c.n
      [] code = 6  -> c.v
      [] code = 7  -> ~c.v
      [] code = 8  -> c.c /\ ~c.z
      [] code = 9  -> ~c.c \/ c.z
      [] code = 10 -> c.n = c.v
      [] code = 11 -> c.n # c.v
      [] code = 12 -> ~c.z /\ (c.n = c.v)
      [] code = 13 -> c.z \/ (c.n # c.v)
      [] code = 14 -> TRUE

\* Instruction::execute
execute(i, c) ==
    IF condition_code(i) = 15
    THEN panic(c, "Unexpected ARM condition 0b1111")
    ELSE IF cond_true(condition_code(i), c)
         THEN decode_and_execute(i, c)
         ELSE c

(***************************************************************************)
(* The peripherals behind the interconnect: the real-time clock (rtc.rs),  *)
(* the raw RTC interrupt line and the three timers.  A Bcd is its raw      *)
(* byte; peripheral addresses and values are plain numbers.  The record p  *)
(* is the Interconnect: rtc, irq_controller, timers, the log of the timer  *)
(* accesses made, and the panic that stopped it.                           *)
(***************************************************************************)
MASTER_CLOCK_HZ == 31232 * 128

MASTER_DIVIDER == MASTER_CLOCK_HZ \div 2

\* Option<Bcd>::None: no byte
NoBcd == 0 - 1

\* Bcd::from_bcd
from_bcd(x) == IF x <= \h99 /\ (x % 16) <= 9 THEN x ELSE NoBcd

\* Bcd::next
Bcd_next(x) ==
    IF x % 16 < 9 THEN x + 1
    ELSE IF x < \h99 THEN ((x \div 16) * 16) + \h10
    ELSE NoBcd

\* Rtc::new
Rtc_new ==
    [paused |-> FALSE, divider |-> MASTER_DIVIDER,
     seconds |-> 0, minutes |-> 0, hours |-> 0,
     week_day |-> 1, day |-> 1, month |-> 1, year |-> from_bcd(\h99),
     adjust |-> 0, skip |-> FALSE]

\* IrqController::new: no raw interrupt line is raised
IrqController_new == [raw_rtc |-> FALSE]

\* IrqController::raw_interrupt(Interrupt::Rtc)
raw_interrupt(p) == p.irq_controller.raw_rtc

\* IrqController::set_raw_interrupt(Interrupt::Rtc, level)
set_raw_interrupt(p, lv) == [p EXCEPT !.irq_controller.raw_rtc = lv]

\* The registers of one timer, by offset
TimerOffsets == {0, 4, 8, 12}

\* Timer::new
Timer_new == [o \in TimerOffsets |-> 0]

\* Interconnect::new
Interconnect_new ==
    [rtc |-> Rtc_new, irq_controller |-> IrqController_new,
     timers |-> [k \in 0..2 |-> Timer_new], log |-> <<>>, panic |-> NoPanic]

\* Option::unwrap of a Bcd written to the counter named f
unwrap_into(p, f, x) ==
    IF x = NoBcd THEN panic(p, "called Option::unwrap() on a None value")
    ELSE [p EXCEPT !.rtc[f] = x]

\* The closure inc_overflow of day_elapsed on the counter f: the
\* interconnect after it and whether the counter wrapped to min
day_inc_overflow(p, f, max, min) ==
    IF p.rtc[f] < max
    THEN [inter |-> unwrap_into(p, f, Bcd_next(p.rtc[f])), overflow |-> FALSE]
    ELSE [inter |-> unwrap_into(p, f, from_bcd(min)), overflow |-> TRUE]

\* The closure inc_overflow of second_elapsed: wraps to Bcd::zero()
second_inc_overflow(p, f, max) ==
    IF p.rtc[f] < max
    THEN [inter |-> unwrap_into(p, f, Bcd_next(p.rtc[f])), overflow |-> FALSE]
    ELSE [inter |-> [p EXCEPT !.rtc[f] = 0], overflow |-> TRUE]

\* The match of day_elapsed on month.bcd(); NoBcd is the unreachable!() arm
days_in_month(m) ==
    CASE m = \h01 -> \h31
      [] m = \h02 -> \h28
      [] m = \h03 -> \h31
      [] m = \h04 -> \h30
      [] m = \h05 -> \h31
      [] m = \h06 -> \h30
      [] m = \h07 -> \h31
      [] m = \h08 -> \h31
      [] m = \h09 -> \h30
      [] m = \h10 -> \h31
      [] m = \h11 -> \h30
      [] m = \h12 -> \h31
      [] OTHER -> NoBcd

\* Rtc::day_elapsed
day_elapsed(p) ==
    LET w == day_inc_overflow(p, "week_day", \h07, \h01).inter
        dim == days_in_month(w.rtc.month)
        d == day_inc_overflow(w, "day", dim, \h01)
        mo == day_inc_overflow(d.inter, "month", \h12, \h01)
    IN  IF dim = NoBcd THEN panic(w, "internal error: entered unreachable code")
        ELSE IF ~d.overflow \/ panicked(d.inter) THEN d.inter
        ELSE IF ~mo.overflow \/ panicked(mo.inter) THEN mo.inter
        ELSE day_inc_overflow(mo.inter, "year", \h99, \h00).inter

\* Rtc::second_elapsed
second_elapsed(p) ==
    LET sec == second_inc_overflow(p, "seconds", \h59)
        mi == second_inc_overflow(sec.inter, "minutes", \h59)
        hr == second_inc_overflow(mi.inter, "hours", \h23)
    IN  IF ~sec.overflow \/ panicked(sec.inter) THEN sec.inter
        ELSE IF ~mi.overflow \/ panicked(mi.inter) THEN mi.inter
        ELSE IF ~hr.overflow \/ panicked(hr.inter) THEN hr.inter
        ELSE day_elapsed(hr.inter)

\* tick_iteration forgetting the ticks left once the divider has run out
tick_iteration_drops_remainder(t) ==
    IF t.inter.rtc.divider >= t.master_ticks
    THEN [inter |-> [t.inter EXCEPT !.rtc.divider = @ - t.master_ticks],
          master_ticks |-> 0]
    ELSE LET reloaded == [t.inter EXCEPT !.rtc.divider = MASTER_DIVIDER]
             lv == ~raw_interrupt(reloaded)
             elapsed == IF lv /\ ~reloaded.rtc.paused
                        THEN second_elapsed(reloaded) ELSE reloaded
         IN  [inter |-> IF panicked(elapsed) THEN elapsed
                        ELSE set_raw_interrupt(elapsed, lv),
              master_ticks |-> 0]

\* One pass of the while loop of Rtc::tick on t = the interconnect and the
\* master ticks still to consume
tick_iteration(t) ==
    IF t.inter.rtc.divider >= t.master_ticks
    THEN [inter |-> [t.inter EXCEPT !.rtc.divider = @ - t.master_ticks],
          master_ticks |-> 0]
    ELSE LET reloaded == [t.inter EXCEPT !.rtc.divider = MASTER_DIVIDER]
             lv == ~raw_interrupt(reloaded)
             elapsed == IF lv /\ ~reloaded.rtc.paused
                        THEN second_elapsed(reloaded) ELSE reloaded
         IN  [inter |-> IF panicked(elapsed) THEN elapsed
                        ELSE set_raw_interrupt(elapsed, lv),
              master_ticks |-> t.master_ticks - t.inter.rtc.divider]

\* The while loop of Rtc::tick, given up after n passes
RECURSIVE tick_loop(_, _)
tick_loop(t, n) ==
    IF t.master_ticks = 0 \/ panicked(t.inter) \/ n = 0 THEN t
    ELSE tick_loop(tick_iteration(t), n - 1)

\* The passes a call of tick may need: one per full divider period in
\* master_ticks, one to spend a divider left at 0 and one for the remainder
TickPasses(master_ticks) == (master_ticks \div MASTER_DIVIDER) + 2

\* Rtc::tick with the ticks it left unconsumed
tick_run(p, master_ticks) ==
    tick_loop([inter |-> p, master_ticks |-> master_ticks],
              TickPasses(master_ticks))

\* Rtc::tick
tick(p, master_ticks) == tick_run(p, master_ticks).inter

\* Rtc::set_mode
set_mode(p, v) ==
    [p EXCEPT !.rtc.paused = (v % 2) # 0, !.rtc.adjust = (v \div 2) % 8]

\* Rtc::set_adjust
set_adjust(p, v) ==
    IF p.rtc.skip THEN [p EXCEPT !.rtc.skip = FALSE]
    ELSE LET a == p.rtc.adjust
             counter == CASE a = 0 -> "seconds" [] a = 1 -> "minutes"
                          [] a = 2 -> "hours" [] a = 3 -> "week_day"
                          [] a = 4 -> "day" [] a = 5 -> "month"
                          [] OTHER -> "year"
             min == CASE a \in {0, 1, 2, 6} -> \h00 [] OTHER -> \h01
             max == CASE a \in {0, 1} -> \h59 [] a = 2 -> \h23 [] a = 3 -> \h07
                      [] a = 4 -> \h31 [] a = 5 -> \h31 [] OTHER -> \h99
             next == IF p.rtc[counter] < max THEN Bcd_next(p.rtc[counter])
                     ELSE from_bcd(min)
             written == unwrap_into(p, counter, next)
         IN  IF a > 6 THEN panic(p, "Unsupported adjust")
             ELSE IF panicked(written) THEN written
             ELSE [written EXCEPT !.rtc.skip = TRUE]

\* Rtc::store
Rtc_store(p, offs, v) ==
    CASE offs = 0 -> set_mode(p, v)
      [] offs = 4 -> set_adjust(p, v)
      [] OTHER -> panic(p, "Unhandled RTC register")

\* Timer::load and Timer::store on the timer k: a register keeps the value
\* stored to it; an index outside the array panics
Timer_load(p, k, offs) ==
    IF k \notin 0..2 THEN [inter |-> panic(p, "index out of bounds"), val |-> 0]
    ELSE [inter |-> Log(p, <<"timer_load", k, offs>>),
          val |-> p.timers[k][offs]]

Timer_store(p, k, offs, v) ==
    IF k \notin 0..2 THEN panic(p, "index out of bounds")
    ELSE Log([p EXCEPT !.timers[k][offs] = v], <<"timer_store", k, offs, v>>)

\* Interconnect::load in the timer window of region 0x0a; the arms of the
\* other devices are left out and no address used reaches them
Interconnect_load(p, size, addr) ==
    LET region == addr \div 16777216
        offset == addr % 16777216
    IN  IF addr % size # 0
        THEN [inter |-> panic(p, "Missaligned load"), val |-> 0]
        ELSE IF region = \h0a /\ offset >= \h800000 /\ offset <= \h800028
        THEN Timer_load(p, (offset \div 256) % 4, offset % 16)
        ELSE [inter |-> panic(p, "unhandled load address"), val |-> 0]

\* Interconnect::store in the timer window of region 0x0a and the RTC
\* window of region 0x0b
Interconnect_store(p, size, addr, v) ==
    LET region == addr \div 16777216
        offset == addr % 16777216
    IN  IF addr % size # 0 THEN panic(p, "Missaligned store")
        ELSE IF region = \h0a /\ offset >= \h800000 /\ offset <= \h800028
        THEN Timer_store(p, (offset \div 16) % 4, offset % 16, v)
        ELSE IF region = \h0b /\ offset >= \h800000 /\ offset <= \h80000c
        THEN Rtc_store(p, offset % 16, v)
        ELSE panic(p, "unhandled store address")

(***************************************************************************)
(* One interpreter step on the fetched word i: registers[15] is the        *)
(* instruction's address plus 8 and next_pc the address of the following   *)
(* instruction while it executes.  before keeps the cpu as the instruction *)
(* found it.                                                               *)
(***************************************************************************)
fetched(c) ==
    [c EXCEPT !.registers[15] = wrapping_add(c.next_pc, U32(8)),
              !.next_pc = wrapping_add(c.next_pc, U32(4)),
              !.log = <<>>,
              !.kernel = <<>>]

Step(i, max) ==
    /\ steps < max
    /\ ~panicked(cpu)
    /\ ~cpu.thumb
    /\ before' = fetched(cpu)
    /\ cpu' = execute(i, fetched(cpu))
    /\ instruction' = i
    /\ steps' = steps + 1
    /\ UNCHANGED inter

(***************************************************************************)
(* Initial states and instruction encodings                                *)
(***************************************************************************)
MaxSteps == 1

UserMode == 16

\* The cpu with general registers regs (a function on 0..14), the given
\* flags and build, about to fetch at address pc
Machine(regs, fn, fz, fc, fv, dbg, pc, ram0) ==
    [registers |-> [r \in 0..15 |-> IF r = 15 THEN Zero32 ELSE regs[r]],
     next_pc   |-> pc,
     n |-> fn, z |-> fz, c |-> fc, v |-> fv,
     thumb     |-> FALSE,
     mode      |-> SupervisorMode,
     spsr      |-> [n |-> ~fn, z |-> ~fz, c |-> ~fc, v |-> ~fv,
                    thumb |-> FALSE, mode |-> UserMode],
     debug     |-> dbg,
     bios_at_0 |-> FALSE,
     bios      |-> <<>>,
     ram       |-> ram0,
     log       |-> <<>>,
     kernel    |-> <<>>,
     panic     |-> NoPanic]

NoInstruction == Zero32

\* The encoding with condition cond, decode bits [27:20] = hi8, Rn, Rd and
\* the low twelve bits
Enc(cond, hi8, n, d, low12) ==
    HL((cond * 4096) + (hi8 * 16) + n, (d * 4096) + low12)

AL == 14

EmptyRam == <<>>

(***************************************************************************)
(* Arithmetic kernels on sample operands: ADDS, SUBS, RSBS, CMP and CMN    *)
(* with register and immediate operands, Rd = R0 or PC.                    *)
(***************************************************************************)
ArithVals ==
    {HL(0, 0), HL(0, 1), HL(0, 2), HL(\h7FFF, \hFFFF), HL(\h8000, 0),
     HL(\hFFFF, \hFFFF)}

\* General registers with R1 = x and R2 = y, the others 0
Regs12(x, y) == [r \in 0..14 |-> CASE r = 1 -> x [] r = 2 -> y [] OTHER -> Zero32]

\* Debug build (debug_assert! active), all four flags clear or all set
InitArith ==
    \E x \in ArithVals, y \in ArithVals, f \in BOOLEAN :
        /\ cpu = Machine(Regs12(x, y), f, f, f, f, TRUE, U32(256), EmptyRam)
        /\ before = cpu
        /\ instruction = NoInstruction
        /\ steps = 0
        /\ inter = Interconnect_new

\* Immediates #0, #1, #2, #0x7F000000, #0x80000000, #0xFF000000
ArithImms == {\h000, \h001, \h002, \h47F, \h480, \h4FF}

ArithProgram ==
    \* ADDS, SUBS, RSBS Rd, R1, R2
    {Enc(AL, op, 1, d, 2) : op \in {\h09, \h05, \h07}, d \in {0, 15}}
    \* ADDS, SUBS, RSBS Rd, R1, #imm
    \cup {Enc(AL, op, 1, d, imm) : op \in {\h29, \h25, \h27}, d \in {0, 15},
                                   imm \in ArithImms}
    \* CMP R1, R2 and CMP / CMN R1, #imm
    \cup {Enc(AL, \h15, 1, 0, 2)}
    \cup {Enc(AL, op, 1, 0, imm) : op \in {\h35, \h37}, imm \in ArithImms}

NextArith == \E i \in ArithProgram : Step(i, MaxSteps)

SpecArith == InitArith /\ [][NextArith]_vars

(***************************************************************************)
(* Reference arithmetic for the properties: a ripple-carry adder and a     *)
(* ripple-borrow subtractor on 32 bits.                                    *)
(***************************************************************************)
RECURSIVE CarryInto(_, _, _)
\* The carry into bit k of x + y
CarryInto(x, y, k) ==
    IF k = 0 THEN FALSE
    ELSE LET p == CarryInto(x, y, k - 1)
         IN  (x[k - 1] /\ y[k - 1]) \/ (x[k - 1] /\ p) \/ (y[k - 1] /\ p)

\* (x + y) mod 2^32
Sum32(x, y) ==
    LET cy == [k \in 0..32 |-> CarryInto(x, y, k)]
    IN  [k \in 0..31 |-> (x[k] # y[k]) # cy[k]]

\* x + y >= 2^32
CarryOut(x, y) == CarryInto(x, y, 32)

RECURSIVE BorrowInto(_, _, _)
\* The borrow into bit k of x - y
BorrowInto(x, y, k) ==
    IF k = 0 THEN FALSE
    ELSE LET p == BorrowInto(x, y, k - 1)
         IN  (~x[k - 1] /\ y[k - 1]) \/ ((x[k - 1] = y[k - 1]) /\ p)

\* (x - y) mod 2^32
Diff32(x, y) ==
    LET bw == [k \in 0..32 |-> BorrowInto(x, y, k)]
    IN  [k \in 0..31 |-> (x[k] # y[k]) # bw[k]]

\* x >= y as unsigned numbers
GeUnsigned(x, y) == ~BorrowInto(x, y, 32)

sign(x) == x[31]

\* The step just taken invoked kernel k and did not fail
Ran(k) == cpu.kernel # <<>> /\ cpu.kernel[1] = k /\ ~panicked(cpu)

\* The step just taken invoked kernel k (it may have failed)
Invoked(k) == cpu.kernel # <<>> /\ cpu.kernel[1] = k

\* The operand the step's addressing-mode evaluator computed before the step
Operand == value(cpu.kernel[2], instruction, before)

RnValue == before.registers[rn(instruction)]

Flags(c) == <<c.n, c.z, c.c, c.v>>

\* No general register R0..R14 differs from its value before the step
GeneralRegistersKept == \A r \in 0..14 : cpu.registers[r] = before.registers[r]

\* C3: after ADDS Rd, Rn, operand with Rd /= PC, Rd = (a + b) mod 2^32,
\* N = result[31], Z = (result = 0), C = (a + b >= 2^32) and
\* V = (sign(a) = sign(b)) /\ (sign(a) /= sign(result)); a = 0xFFFFFFFF,
\* b = 2 gives Rd = 1 and N = 0, Z = 0, C = 1, V = 0
C3_AddsResultAndFlags ==
    (Ran("adds") /\ rd(instruction) # 15) =>
        LET a      == RnValue
            bb     == Operand
            result == Sum32(a, bb)
        IN  /\ cpu.registers[rd(instruction)] = result
            /\ cpu.n = result[31]
            /\ cpu.z = (result = Zero32)
            /\ cpu.c = CarryOut(a, bb)
            /\ cpu.v = ((sign(a) = sign(bb)) /\ (sign(a) # sign(result)))
            /\ (a = HL(\hFFFF, \hFFFF) /\ bb = U32(2)) =>
                  /\ cpu.registers[rd(instruction)] = U32(1)
                  /\ Flags(cpu) = <<FALSE, FALSE, TRUE, FALSE>>

\* ADDS R0, R1, R2 (E0910002) has run with R1 = 0xFFFFFFFF and R2 = 2
C3_Witness ==
    /\ Ran("adds")
    /\ instruction = HL(\hE091, \h0002)
    /\ RnValue = HL(\hFFFF, \hFFFF)
    /\ Operand = U32(2)
    /\ cpu.registers[0] = U32(1)

\* C4: SUBS (Rd /= PC) and CMP compute result = (a - b) mod 2^32 and set
\* N = result[31], Z = (result = 0), C = (a >= b unsigned) and
\* V = (sign(a) /= sign(b)) /\ (sign(a) /= sign(result)); SUBS writes the
\* result to Rd and CMP writes no register; a = 0x80000000, b = 1 gives
\* 0x7FFFFFFF with N = 0, Z = 0, C = 1, V = 1
C4_SubsCmpResultAndFlags ==
    ((Ran("subs") /\ rd(instruction) # 15) \/ Ran("cmp")) =>
        LET a      == RnValue
            bb     == Operand
            result == Diff32(a, bb)
        IN  /\ cpu.n = result[31]
            /\ cpu.z = (result = Zero32)
            /\ cpu.c = GeUnsigned(a, bb)
            /\ cpu.v = ((sign(a) # sign(bb)) /\ (sign(a) # sign(result)))
            /\ Ran("subs") => cpu.registers[rd(instruction)] = result
            /\ Ran("cmp") => /\ cpu.registers = before.registers
                             /\ cpu.next_pc = before.next_pc
            /\ (a = HL(\h8000, 0) /\ bb = U32(1)) =>
                  /\ result = HL(\h7FFF, \hFFFF)
                  /\ Flags(cpu) = <<FALSE, FALSE, TRUE, TRUE>>

\* SUBS R0, R1, R2 (E0510002) has run with R1 = 0x80000000 and R2 = 1
C4_Witness ==
    /\ Ran("subs")
    /\ instruction = HL(\hE051, \h0002)
    /\ RnValue = HL(\h8000, 0)
    /\ Operand = U32(1)
    /\ cpu.registers[0] = HL(\h7FFF, \hFFFF)

\* C6: CMN writes no register, sets N and Z from (a + b) mod 2^32 and sets V
\* by the addition overflow rule
\* (sign(a) = sign(b)) /\ (sign(a) /= sign(result))
C6_CmnFlags ==
    Ran("cmn") =>
        LET a      == RnValue
            bb     == Operand
            result == Sum32(a, bb)
        IN  /\ cpu.registers = before.registers
            /\ cpu.next_pc = before.next_pc
            /\ cpu.n = result[31]
            /\ cpu.z = (result = Zero32)
            /\ cpu.v = ((sign(a) = sign(bb)) /\ (sign(a) # sign(result)))

\* C7 as stated: RSBS with Rd /= PC, a = Rn and b = operand writes
\* (b - a) mod 2^32 to Rd and sets C = (b >= a unsigned) and
\* V = (sign(a) /= sign(b)) /\ (sign(a) /= sign(result))
C7_RsbsAsStated ==
    (Ran("rsbs") /\ rd(instruction) # 15) =>
        LET a      == RnValue
            bb     == Operand
            result == Diff32(bb, a)
        IN  /\ cpu.registers[rd(instruction)] = result
            /\ cpu.c = GeUnsigned(bb, a)
            /\ cpu.v = ((sign(a) # sign(bb)) /\ (sign(a) # sign(result)))

\* C7: RSBS with Rd /= PC, a = Rn and b = operand writes (b - a) mod 2^32 to
\* Rd and sets C = (b >= a unsigned) and
\* V = (sign(a) /= sign(b)) /\ (sign(b) /= sign(result)), the signed overflow
\* of b - a
C7_RsbsResultAndFlags ==
    (Ran("rsbs") /\ rd(instruction) # 15) =>
        LET a      == RnValue
            bb     == Operand
            result == Diff32(bb, a)
        IN  /\ cpu.registers[rd(instruction)] = result
            /\ cpu.c = GeUnsigned(bb, a)
            /\ cpu.v = ((sign(a) # sign(bb)) /\ (sign(bb) # sign(result)))

\* RSBS R0, R1, R2 (E0710002) has run with R1 = 1 and R2 = 0x80000000:
\* 0x80000000 - 1 overflows, V is set though sign(a) = sign(result)
C7_Witness ==
    /\ Ran("rsbs")
    /\ instruction = HL(\hE071, \h0002)
    /\ RnValue = U32(1)
    /\ Operand = HL(\h8000, 0)
    /\ cpu.registers[0] = HL(\h7FFF, \hFFFF)
    /\ cpu.v

(***************************************************************************)
(* Logical S kernels on sample operands: every operand form the table has  *)
(* for ANDS, EORS, ORRS, MOVS, BICS, TST and TEQ, with R1 = Rn, R2 = Rm    *)
(* and R3 = Rs, and the S kernels with Rd = PC.                            *)
(***************************************************************************)
LogicVals == {HL(0, 0), HL(0, 1), HL(\h8000, 0), HL(\hFFFF, \hFFFF)}

ShiftVals == {U32(0), U32(1), U32(32)}

Regs123(x, y, w) ==
    [r \in 0..14 |-> CASE r = 1 -> x [] r = 2 -> y [] r = 3 -> w
                       [] OTHER -> Zero32]

InitLogic ==
    \E x \in LogicVals, y \in LogicVals, w \in ShiftVals, f \in BOOLEAN :
        /\ cpu = Machine(Regs123(x, y, w), f, f, f, f, TRUE, U32(256), EmptyRam)
        /\ before = cpu
        /\ instruction = NoInstruction
        /\ steps = 0
        /\ inter = Interconnect_new

\* Shifter operands on R2: LSL #0, LSL #1, LSR #32, LSR #1, ASR #32, ASR #1,
\* RRX, ROR #2
ImmShifts == {\h002, \h082, \h022, \h0A2, \h042, \h0C2, \h062, \h162}

\* R2 shifted by R3: LSL, LSR, ASR, ROR
RegShifts == {\h312, \h332, \h352, \h372}

\* Immediates #0xFF, #0x7F000000, #0x80000000
LogicImms == {\h0FF, \h47F, \h480}

LogicProgram ==
    \* ANDS, EORS, ORRS, BICS R0, R1, #imm and TST R1, #imm
    {Enc(AL, op, 1, 0, imm) : op \in {\h21, \h23, \h39, \h3D, \h31},
                              imm \in LogicImms}
    \* EORS R0, R1, R2, ASR #n
    \cup {Enc(AL, \h03, 1, 0, sh) : sh \in {\h042, \h0C2}}
    \* ORRS R0, R1, <shifter operand> and TST R1, <shifter operand>
    \cup {Enc(AL, op, 1, 0, sh) : op \in {\h19, \h11},
                                  sh \in ImmShifts \cup RegShifts}
    \* MOVS R0, <shifter operand> (no table slot for ASR and ROR by register)
    \cup {Enc(AL, \h1B, 0, 0, sh) : sh \in ImmShifts \cup {\h312, \h332}}
    \* BICS R0, R1, R2 / R2, LSL #1 / R2, LSL R3
    \cup {Enc(AL, \h1D, 1, 0, sh) : sh \in {\h002, \h082, \h312}}
    \* TEQ R1, R2 {, LSL #1 / LSR #32 / LSR #1}
    \cup {Enc(AL, \h13, 1, 0, sh) : sh \in {\h002, \h082, \h022, \h0A2}}

\* ANDS, EORS, SUBS, RSBS, ADDS, ORRS, BICS PC, R1, #0xFF; the same with R2
\* for EORS .. BICS; MOVS PC, R2 and MOVS PC, R2, LSL R3
PcTargetProgram ==
    {Enc(AL, op, 1, 15, \h0FF) : op \in {\h21, \h23, \h25, \h27, \h29, \h39, \h3D}}
    \cup {Enc(AL, op, 1, 15, \h002) : op \in {\h05, \h07, \h09, \h19, \h1D}}
    \cup {Enc(AL, \h03, 1, 15, \h042)}
    \cup {Enc(AL, \h1B, 0, 15, sh) : sh \in {\h002, \h312}}

NextLogic == \E i \in LogicProgram \cup PcTargetProgram : Step(i, MaxSteps)

SpecLogic == InitLogic /\ [][NextLogic]_vars

LogicalS == {"ands", "eors", "orrs", "movs", "bics", "tst", "teq"}

\* The result of logical kernel k on x = Rn and operand y
LogicalResult(k, x, y) ==
    CASE k \in {"ands", "tst"} -> [j \in 0..31 |-> x[j] /\ y[j]]
      [] k \in {"eors", "teq"} -> [j \in 0..31 |-> x[j] # y[j]]
      [] k = "orrs"            -> [j \in 0..31 |-> x[j] \/ y[j]]
      [] k = "bics"            -> [j \in 0..31 |-> x[j] /\ ~y[j]]
      [] k = "movs"            -> y

\* C5: after ANDS, EORS, ORRS, MOVS, BICS, TST or TEQ with an operand form
\* whose carry is defined, N = result[31], Z = (result = 0), C is the
\* carry-out the addressing-mode evaluator returns for the same instruction
\* on the state before the step, and V is unchanged; TST and TEQ write no
\* general register
C5_LogicalFlags ==
    (cpu.kernel # <<>> /\ cpu.kernel[1] \in LogicalS /\ ~panicked(cpu)) =>
        LET k      == cpu.kernel[1]
            vc     == value_carry(cpu.kernel[2], instruction, before)
            result == LogicalResult(k, RnValue, vc.val)
        IN  /\ ~vc.unimpl
            /\ cpu.n = result[31]
            /\ cpu.z = (result = Zero32)
            /\ cpu.c = vc.carry
            /\ cpu.v = before.v
            /\ k \in {"tst", "teq"} => GeneralRegistersKept

\* MOVS R0, R2, LSR #1 (E1B000A2) has run with R2 = 1 and C clear: the
\* result is 0 and the carry-out is the bit shifted out
C5_Witness ==
    /\ Ran("movs")
    /\ instruction = HL(\hE1B0, \h00A2)
    /\ before.registers[2] = U32(1)
    /\ ~before.c
    /\ Flags(cpu) = <<FALSE, TRUE, TRUE, FALSE>>

SDest == {"ands", "eors", "subs", "rsbs", "adds", "orrs", "movs", "bics"}

\* The step left the machine as it found it: registers, next PC, flags, mode,
\* memory, and no bus access issued
NothingChanged ==
    /\ cpu.registers = before.registers
    /\ cpu.next_pc = before.next_pc
    /\ Flags(cpu) = Flags(before)
    /\ cpu.thumb = before.thumb
    /\ cpu.mode = before.mode
    /\ cpu.spsr = before.spsr
    /\ cpu.ram = before.ram
    /\ cpu.log = <<>>

\* C8: an S-suffixed kernel that writes a destination (ANDS, EORS, SUBS,
\* RSBS, ADDS, ORRS, MOVS, BICS) invoked with Rd = 15 ends the step in
\* failure with no register, flag or memory changed
C8_SKernelPcTargetFails ==
    (cpu.kernel # <<>> /\ cpu.kernel[1] \in SDest /\ rd(instruction) = 15) =>
        /\ panicked(cpu)
        /\ NothingChanged

\* MOVS PC, R2 (E1B0F002) was invoked and failed on its destination
C8_Witness ==
    /\ Invoked("movs")
    /\ instruction = HL(\hE1B0, \hF002)
    /\ cpu.panic = "*S instruction with PC target"

(***************************************************************************)
(* Conditional execution: every condition code on every flag state, for    *)
(* words whose kernels write a register, the flags, memory and the PC.     *)
(***************************************************************************)
\* R0 = 5, R1 = 0x1000, R2 = 1
CondRegs ==
    [r \in 0..14 |-> CASE r = 0 -> U32(5) [] r = 1 -> U32(4096)
                       [] r = 2 -> U32(1) [] OTHER -> Zero32]

InitCond ==
    \E fn \in BOOLEAN, fz \in BOOLEAN, fc \in BOOLEAN, fv \in BOOLEAN :
        /\ cpu = Machine(CondRegs, fn, fz, fc, fv, TRUE, U32(256), EmptyRam)
        /\ before = cpu
        /\ instruction = NoInstruction
        /\ steps = 0
        /\ inter = Interconnect_new

\* ADD R0, R1, R2; CMP R1, R2; STR R2, [R1]; B .+16; a coprocessor word
\* (no kernel: the table's unimplemented handler)
CondBodies ==
    {<<\h08, 1, 0, \h002>>, <<\h15, 1, 0, \h002>>, <<\h58, 1, 2, \h000>>,
     <<\hA0, 0, 0, \h002>>, <<\hE0, 0, 0, \h000>>}

CondProgram ==
    {Enc(cc, w[1], w[2], w[3], w[4]) : cc \in 0..15, w \in CondBodies}

NextCond == \E i \in CondProgram : Step(i, MaxSteps)

SpecCond == InitCond /\ [][NextCond]_vars

\* The condition table: codes 2k and 2k + 1 are a predicate and its negation
CondBase(k, f) ==
    CASE k = 0 -> f.z
      [] k = 1 -> f.c
      [] k = 2 -> f.n
      [] k = 3 -> f.v
      [] k = 4 -> f.c /\ ~f.z
      [] k = 5 -> f.n = f.v
      [] k = 6 -> ~f.z /\ (f.n = f.v)
      [] k = 7 -> TRUE

CondTable(code, f) ==
    IF code % 2 = 0 THEN CondBase(code \div 2, f) ELSE ~CondBase(code \div 2, f)

\* C1: Instruction::execute invokes the dispatched kernel exactly when the
\* condition field, in 0..14, satisfies its table predicate on the flags
\* before the step; when the predicate is false no general register other
\* than PC, no flag and no memory location changes; condition field 1111
\* always ends in the failure state
C1_ConditionalExecution ==
    steps > 0 =>
        LET code == condition_code(instruction)
        IN  /\ code \in 0..14 =>
                /\ (cpu.kernel # <<>>) = CondTable(code, before)
                /\ cpu.kernel # <<>> =>
                       cpu.kernel = OPCODE_LUT[opcode(instruction)]
                /\ ~CondTable(code, before) =>
                       /\ GeneralRegistersKept
                       /\ Flags(cpu) = Flags(before)
                       /\ cpu.ram = before.ram
                       /\ cpu.log = <<>>
                       /\ ~panicked(cpu)
            /\ code = 15 => panicked(cpu) /\ cpu.kernel = <<>>

\* STRHI R2, [R1] (85812000) was skipped with C set and Z set: no kernel
\* was invoked and nothing was stored
C1_Witness ==
    /\ steps > 0
    /\ instruction = HL(\h8581, \h2000)
    /\ before.c /\ before.z
    /\ cpu.kernel = <<>>
    /\ cpu.ram = before.ram
    /\ ~panicked(cpu)

(***************************************************************************)
(* One word for every kernel of the table, on a machine whose SPSR flags   *)
(* are the complement of its CPSR flags.                                   *)
(***************************************************************************)
\* The word 0xAABBCCDD at 0x1000 and 0x00000200 at 0x1004
SampleRam ==
    [a \in 4096..4103 |->
        CASE a = 4096 -> 221 [] a = 4097 -> 204 [] a = 4098 -> 187
          [] a = 4099 -> 170 [] a = 4101 -> 2 [] OTHER -> 0]

FlagOperands == {Zero32, U32(1), HL(\h8000, 0)}

\* R1 = 0x1000, R2 = w, R3 = 2, R4 = 7
FlagRegs(w) ==
    [r \in 0..14 |-> CASE r = 1 -> U32(4096) [] r = 2 -> w [] r = 3 -> U32(2)
                       [] r = 4 -> U32(7) [] OTHER -> Zero32]

InitFlags ==
    \E w \in FlagOperands, fn \in BOOLEAN, fz \in BOOLEAN, fc \in BOOLEAN,
       fv \in BOOLEAN :
        /\ cpu = Machine(FlagRegs(w), fn, fz, fc, fv, TRUE, U32(256), SampleRam)
        /\ before = cpu
        /\ instruction = NoInstruction
        /\ steps = 0
        /\ inter = Interconnect_new

FlagProgram ==
    \* AND, EOR, SUB, RSB, ADD, ADC, ORR, BIC R0, R1, R2 and their S forms
    \* SUBS, RSBS, ADDS, ORRS, BICS
    {Enc(AL, op, 1, 0, \h002) :
        op \in {\h00, \h02, \h04, \h06, \h08, \h0A, \h18, \h1C,
                \h05, \h07, \h09, \h19, \h1D}}
    \* ANDS, EORS R0, R1, #0xFF
    \cup {Enc(AL, op, 1, 0, \h0FF) : op \in {\h21, \h23}}
    \* MOV, MVN, MOVS R0, R2
    \cup {Enc(AL, op, 0, 0, \h002) : op \in {\h1A, \h1E, \h1B}}
    \* TST, TEQ, CMP R1, R2 and CMN R1, #1
    \cup {Enc(AL, op, 1, 0, \h002) : op \in {\h11, \h13, \h15}}
    \cup {Enc(AL, \h37, 1, 0, \h001)}
    \* MUL, MULS R0, R1, R2 and MLA R0, R1, R2, R3
    \cup {Enc(AL, \h00, 0, 0, \h291), Enc(AL, \h01, 0, 0, \h291),
          Enc(AL, \h02, 0, 3, \h291)}
    \* LDR, STR, LDRB, STRB R0, [R1]
    \cup {Enc(AL, op, 1, 0, \h000) : op \in {\h59, \h58, \h5D, \h5C}}
    \* LDRH, STRH, LDRSB, LDRSH R0, [R1]
    \cup {Enc(AL, \h1D, 1, 0, \h0B0), Enc(AL, \h1C, 1, 0, \h0B0),
          Enc(AL, \h1D, 1, 0, \h0D0), Enc(AL, \h1D, 1, 0, \h0F0)}
    \* LDMIA R1, {R4, R5}; STMIA R1, {R4, R5}; LDMIA R1!, {R4, PC}^
    \cup {Enc(AL, \h89, 1, 0, \h030), Enc(AL, \h88, 1, 0, \h030),
          Enc(AL, \h8F, 1, 8, \h010)}
    \* B, BL, MRS R0, CPSR, MRS R0, SPSR, MSR CPSR_f, R2, BX R2, SWI and a
    \* coprocessor word
    \cup {Enc(AL, \hA0, 0, 0, \h002), Enc(AL, \hB0, 0, 0, \h002),
          Enc(AL, \h10, 15, 0, \h000), Enc(AL, \h14, 15, 0, \h000),
          Enc(AL, \h12, 8, 15, \h002), Enc(AL, \h12, 15, 15, \hF12),
          Enc(AL, \hF0, 0, 0, \h000), Enc(AL, \hE0, 0, 0, \h000)}

NextFlags == \E i \in FlagProgram : Step(i, MaxSteps)

SpecFlags == InitFlags /\ [][NextFlags]_vars

\* S-suffixed data processing, the comparisons, multiply with S, MSR,
\* LDM(3) and BX
FlagWriter(h) ==
    \/ h[1] \in SDest \cup {"cmp", "cmn", "tst", "teq", "msr_cpsr", "ldms", "bx"}
    \/ h[1] \in {"mul", "mla"} /\ h[2] = "Set"

\* Every other kernel
FlagKeeper(h) ==
    \/ h[1] \in {"and", "eor", "sub", "rsb", "add", "adc", "orr", "mov", "bic",
                 "mvn", "ldr", "str", "ldrb", "strb", "ldrh", "strh", "ldrsb",
                 "ldrsh", "ldm", "stm", "b", "bl", "mrs_cpsr", "mrs_spsr"}
    \/ h[1] \in {"mul", "mla"} /\ h[2] = "Clear"

\* C2: the flags N, Z, C, V change only in a step that executes an
\* S-suffixed data-processing operation, CMP/CMN/TST/TEQ, a multiply with
\* the S bit, MSR, LDM(3) or BX; every other kernel leaves all four flags
\* as they were
C2_FlagsFrame ==
    steps > 0 =>
        /\ Flags(cpu) # Flags(before) =>
               cpu.kernel # <<>> /\ FlagWriter(cpu.kernel)
        /\ (cpu.kernel # <<>> /\ FlagKeeper(cpu.kernel)) =>
               Flags(cpu) = Flags(before)

\* MUL R0, R1, R2 (E0000291) has run with R2 = 0 and Z clear: the product
\* is 0 and Z stays clear
C2_Witness ==
    /\ Ran("mul")
    /\ cpu.kernel[2] = "Clear"
    /\ instruction = HL(\hE000, \h0291)
    /\ before.registers[2] = Zero32
    /\ cpu.registers[0] = Zero32
    /\ ~before.z /\ ~cpu.z

(***************************************************************************)
(* Loads and stores through a base register at 0x1000 .. 0x1003, over the  *)
(* sample RAM.                                                             *)
(***************************************************************************)
MemBases == {U32(4096), U32(4097), U32(4098), U32(4099)}

MemOffsets == {U32(0), U32(1), U32(2)}

\* R0 = 0x11223344, R1 = base, R2 = offset, R4 = 7, R5 = 9
MemRegs(base, offset) ==
    [r \in 0..14 |-> CASE r = 0 -> HL(\h1122, \h3344) [] r = 1 -> base
                       [] r = 2 -> offset [] r = 4 -> U32(7) [] r = 5 -> U32(9)
                       [] OTHER -> Zero32]

InitMem ==
    \E base \in MemBases, offset \in MemOffsets, f \in BOOLEAN :
        /\ cpu = Machine(MemRegs(base, offset), f, f, f, f, TRUE, U32(256),
                         SampleRam)
        /\ before = cpu
        /\ instruction = NoInstruction
        /\ steps = 0
        /\ inter = Interconnect_new

MemProgram ==
    \* LDR R0, [R1] / [R1, #4] / [R1, #-1]; LDR PC, [R1]
    {Enc(AL, \h59, 1, 0, \h000), Enc(AL, \h59, 1, 0, \h004),
     Enc(AL, \h51, 1, 0, \h001), Enc(AL, \h59, 1, 15, \h000)}
    \* LDR R0, [R1, #4]! / [R1], #4 / [R1, R2] / [R1, R2]!
    \cup {Enc(AL, \h5B, 1, 0, \h004), Enc(AL, \h49, 1, 0, \h004),
          Enc(AL, \h79, 1, 0, \h002), Enc(AL, \h7B, 1, 0, \h002)}
    \* STR R0, [R1] / [R1, #4]! / [R1], #4 / [R1, R2]
    \cup {Enc(AL, \h58, 1, 0, \h000), Enc(AL, \h5A, 1, 0, \h004),
          Enc(AL, \h48, 1, 0, \h004), Enc(AL, \h78, 1, 0, \h002)}
    \* LDRB, STRB R0, [R1]
    \cup {Enc(AL, \h5D, 1, 0, \h000), Enc(AL, \h5C, 1, 0, \h000)}
    \* LDRH, STRH, LDRSH, LDRSB R0, [R1]
    \cup {Enc(AL, \h1D, 1, 0, \h0B0), Enc(AL, \h1C, 1, 0, \h0B0),
          Enc(AL, \h1D, 1, 0, \h0F0), Enc(AL, \h1D, 1, 0, \h0D0)}
    \* LDMIA, STMIA R1, {R4, R5}
    \cup {Enc(AL, \h89, 1, 0, \h030), Enc(AL, \h88, 1, 0, \h030)}

NextMem == \E i \in MemProgram : Step(i, MaxSteps)

SpecMem == InitMem /\ [][NextMem]_vars

\* The bus accesses of the step, in the order issued
BusAccesses == SelectSeq(cpu.log, LAMBDA e : e[1] \in {"load", "store"})

\* C9: every bus access the interpreter issues is aligned to its width,
\* STR, LDRH/LDRSH/STRH and LDM/STM with a misaligned effective address
\* included, so the bus's misaligned-access failure is unreachable
C9_AccessesAligned ==
    /\ \A k \in DOMAIN BusAccesses :
           Bits(BusAccesses[k][3], 0, 2) % BusAccesses[k][2] = 0
    /\ cpu.panic \notin {"Missaligned load", "Missaligned store"}

\* The effective address the step's addressing-mode evaluator computed
EffectiveAddress ==
    address(cpu.kernel[2], cpu.kernel[3] = "Set", instruction, before).addr

\* C10: LDR with effective address A issues exactly one 32-bit bus load, at
\* A & ~3, and writes to Rd the loaded word rotated right by 8 * (A & 3)
\* bits; when Rd is PC the low two bits of the written value are cleared
\* and the Thumb bit is not changed; 0xAABBCCDD at 0x1000 read through
\* A = 0x1003 yields 0xBBCCDDAA
C10_LdrRotatedLoad ==
    Ran("ldr") =>
        LET A       == EffectiveAddress
            aligned == [j \in 0..31 |-> j >= 2 /\ A[j]]
            word    == mem_load(before.ram, Word, Bits(aligned, 0, 24))
            n8      == 8 * Bits(A, 0, 2)
            rotated == [j \in 0..31 |-> word[(j + n8) % 32]]
        IN  /\ BusAccesses = << <<"load", Word, aligned>> >>
            /\ rd(instruction) # 15 =>
                   cpu.registers[rd(instruction)] = rotated
            /\ rd(instruction) = 15 =>
                   /\ cpu.next_pc = [j \in 0..31 |-> j >= 2 /\ rotated[j]]
                   /\ cpu.thumb = before.thumb
            /\ (A = U32(4099) /\ word = HL(\hAABB, \hCCDD)) =>
                   rotated = HL(\hBBCC, \hDDAA)

\* LDR R0, [R1] (E5910000) has run with R1 = 0x1003 over 0xAABBCCDD at
\* 0x1000
C10_Witness ==
    /\ Ran("ldr")
    /\ instruction = HL(\hE591, \h0000)
    /\ EffectiveAddress = U32(4099)
    /\ BusAccesses = << <<"load", Word, U32(4096)>> >>
    /\ cpu.registers[0] = HL(\hBBCC, \hDDAA)

(***************************************************************************)
(* A store followed by a load: sequences of up to MaxPairSteps words over  *)
(* the sample RAM, with R0 the stored value and R1 the address.            *)
(***************************************************************************)
MaxPairSteps == 2

StoredVals == {HL(\h1122, \h3344), HL(\h8000, \hFF80), HL(\hFFFF, \h7F7F)}

PairBases == {U32(4096), U32(4097), U32(4098)}

\* R0 = v, R1 = base
PairRegs(v, base) ==
    [r \in 0..14 |-> CASE r = 0 -> v [] r = 1 -> base [] OTHER -> Zero32]

InitRoundTrip ==
    \E v \in StoredVals, base \in PairBases :
        /\ cpu = Machine(PairRegs(v, base), FALSE, FALSE, FALSE, FALSE, TRUE,
                         U32(256), SampleRam)
        /\ before = cpu
        /\ instruction = NoInstruction
        /\ steps = 0
        /\ inter = Interconnect_new

RoundTripProgram ==
    \* STR, STRB, STRH R0, [R1]
    {Enc(AL, \h58, 1, 0, \h000), Enc(AL, \h5C, 1, 0, \h000),
     Enc(AL, \h1C, 1, 0, \h0B0)}
    \* LDR, LDRB, LDRSH R3, [R1] and LDR R3, [R1, #4]
    \cup {Enc(AL, \h59, 1, 3, \h000), Enc(AL, \h5D, 1, 3, \h000),
          Enc(AL, \h1D, 1, 3, \h0F0), Enc(AL, \h59, 1, 3, \h004)}

NextRoundTrip == \E i \in RoundTripProgram : Step(i, MaxPairSteps)

SpecRoundTrip == InitRoundTrip /\ [][NextRoundTrip]_vars

\* The step just taken ran store kernel k on value v = Rd at address addr
Stored(k, size, v, addr) ==
    /\ Ran(k)
    /\ v = before.registers[rd(instruction)]
    /\ Len(BusAccesses) = 1
    /\ BusAccesses[1][1] = "store"
    /\ BusAccesses[1][2] = size
    /\ BusAccesses[1][3] = addr

\* A step of load kernel k from addr into a register other than PC, right
\* after the store of v by kernel st, leaves want(v) in Rd
RoundTrip(st, k, size, want(_)) ==
    \A v \in StoredVals, addr \in PairBases :
        (/\ Stored(st, size, v, addr)
         /\ Ran(k)'
         /\ EffectiveAddress' = addr
         /\ Bits(addr, 0, 2) % size = 0
         /\ rd(instruction') # 15)
        => cpu'.registers[rd(instruction')] = want(v)

ZeroExtend8(v) == [j \in 0..31 |-> j < 8 /\ v[j]]

SignExtend16(v) == [j \in 0..31 |-> IF j < 16 THEN v[j] ELSE v[15]]

RoundTripStep ==
    /\ RoundTrip("str", "ldr", Word, LAMBDA v : v)
    /\ RoundTrip("strb", "ldrb", Byte, ZeroExtend8)
    /\ RoundTrip("strh", "ldrsh", HalfWord, SignExtend16)

\* C11: with no intervening store and a destination other than PC, STR of v
\* to a 4-aligned address followed by LDR from the same address yields v,
\* STRB of v followed by LDRB yields v & 0xFF, and STRH of v to a 2-aligned
\* address followed by LDRSH yields the sign-extension of v & 0xFFFF
C11_StoreLoadRoundTrips == [][RoundTripStep]_vars

\* LDRSH R3, [R1] (E1D130F0) has run right after STRH R0, [R1] put the low
\* half of R0 = 0x8000FF80 at 0x1002, where the sample RAM held 0
C11_Witness ==
    /\ steps = 2
    /\ Ran("ldrsh")
    /\ instruction = HL(\hE1D1, \h30F0)
    /\ before.registers[0] = HL(\h8000, \hFF80)
    /\ EffectiveAddress = U32(4098)
    /\ mem_load(before.ram, HalfWord, 4098) = U32(65408)
    /\ cpu.registers[3] = HL(\hFFFF, \hFF80)

(***************************************************************************)
(* Block transfers: every LDM / STM slot of the table on a choice of       *)
(* register lists, with base R1 or PC.                                     *)
(***************************************************************************)
BlockBases == {U32(4096), U32(4112)}

\* R0..R3 = 1..4, but R1 = base; R4 = 7, R5 = 9
BlockRegs(base) ==
    [r \in 0..14 |-> CASE r = 1 -> base [] r \in {0, 2, 3} -> U32(r + 1)
                       [] r = 4 -> U32(7) [] r = 5 -> U32(9) [] OTHER -> Zero32]

InitBlock ==
    \E base \in BlockBases, f \in BOOLEAN :
        /\ cpu = Machine(BlockRegs(base), f, f, f, f, TRUE, U32(256), SampleRam)
        /\ before = cpu
        /\ instruction = NoInstruction
        /\ steps = 0
        /\ inter = Interconnect_new

\* STMIA, LDMIA, STMIA!, LDMIA!, LDMIA! ^, LDMDB, STMDB!
BlockOps == {\h88, \h89, \h8A, \h8B, \h8F, \h91, \h92}

\* Register lists as <<bits 15..12, bits 11..0>>: {R4, R5}, {R4}, {},
\* {R1, R4}, {R4, PC}, {PC}, {R0, R2, R3}
BlockLists ==
    {<<0, \h030>>, <<0, \h010>>, <<0, \h000>>, <<0, \h012>>, <<8, \h010>>,
     <<8, \h000>>, <<0, \h00D>>}

BlockProgram ==
    {Enc(AL, op, n, l[1], l[2]) : op \in BlockOps, n \in {1, 15},
                                  l \in BlockLists}

NextBlock == \E i \in BlockProgram : Step(i, MaxSteps)

SpecBlock == InitBlock /\ [][NextBlock]_vars

BlockKernels == {"ldm", "ldms", "stm"}

\* The registers the step's list names
Listed == {j \in 0..15 : instruction[j]}

\* C12: for every LDM, LDM(3) and STM with a non-empty register list that
\* does not fail, the number of 32-bit bus accesses issued during the step
\* equals popcount(list), the deferred PC word of LDM(3) included
C12_BlockAccessCount ==
    (cpu.kernel # <<>> /\ cpu.kernel[1] \in BlockKernels /\ ~panicked(cpu)
     /\ Listed # {}) =>
        /\ \A k \in DOMAIN BusAccesses : BusAccesses[k][2] = Word
        /\ Len(BusAccesses) = Cardinality(Listed)

\* The step's W bit
WritebackRequested == instruction[21]

\* C13: LDM, LDM with S = 1 and STM fail before any bus access is issued and
\* before any register is written when the register list is empty, or Rn is
\* PC, or writeback is requested and Rn is in the list; STM also fails so
\* when PC is in the list
C13_BlockUnpredictableFails ==
    (/\ cpu.kernel # <<>>
     /\ cpu.kernel[1] \in BlockKernels
     /\ \/ Listed = {}
        \/ rn(instruction) = 15
        \/ WritebackRequested /\ rn(instruction) \in Listed
        \/ cpu.kernel[1] = "stm" /\ 15 \in Listed) =>
        /\ panicked(cpu)
        /\ NothingChanged

\* STMIA R1!, {R1, R4} (E8A10012) was invoked and failed on its base
C13_Witness ==
    /\ Invoked("stm")
    /\ instruction = HL(\hE8A1, \h0012)
    /\ panicked(cpu)
    /\ cpu.log = <<>>

\* The register and status writes of the step, in the order made
Writes ==
    SelectSeq(cpu.log, LAMBDA e : e[1] \in {"set_reg", "set_pc", "set_pc_cpsr",
                                            "set_pc_thumb", "msr_cpsr", "swi"})

\* The number of listed registers below j
Rank(j) == Cardinality({m \in Listed : m < j})

\* The word an LDMIA of the step loads for listed register j
LoadedWord(j) ==
    mem_load(before.ram, Word,
             Bits(before.registers[rn(instruction)], 0, 24) + (4 * Rank(j)))

\* C14: in LDM(3) every listed register other than PC is written with its
\* loaded word; then, if W is set, the base register receives the writeback
\* value; then, last, PC is set to the word loaded for register 15 and CPSR
\* is replaced by the SPSR of the mode current before the step, as one
\* action.  No general register is written after CPSR has changed and PC is
\* not written before the base writeback
C14_Ldm3Order ==
    (Ran("ldms") /\ 15 \in Listed) =>
        LET general == Listed \ {15}
            k       == Cardinality(general)
            wb      == Sum32(before.registers[rn(instruction)],
                             U32(4 * Cardinality(Listed)))
            n       == IF WritebackRequested THEN k + 2 ELSE k + 1
        IN  /\ Len(Writes) = n
            /\ \A j \in general :
                   Writes[Rank(j) + 1] = <<"set_reg", j, LoadedWord(j)>>
            /\ WritebackRequested =>
                   Writes[k + 1] = <<"set_reg", rn(instruction), wb>>
            /\ Writes[n] = <<"set_pc_cpsr", LoadedWord(15)>>
            /\ cpu.next_pc = LoadedWord(15)
            /\ Flags(cpu) = Flags(before.spsr)
            /\ cpu.mode = before.spsr.mode
            /\ cpu.thumb = before.spsr.thumb

\* LDMIA R1!, {R4, PC}^ (E8F18010) has run with R1 = 0x1000: R4 gets
\* 0xAABBCCDD, R1 gets 0x1008, then PC gets 0x200 with the saved status
C14_Witness ==
    /\ Ran("ldms")
    /\ instruction = HL(\hE8F1, \h8010)
    /\ before.registers[1] = U32(4096)
    /\ Writes = << <<"set_reg", 4, HL(\hAABB, \hCCDD)>>,
                   <<"set_reg", 1, U32(4104)>>,
                   <<"set_pc_cpsr", U32(512)>> >>
    /\ cpu.mode = UserMode

(***************************************************************************)
(* A full-descending stack: STMDB R13!, list and LDMIA R13!, list in       *)
(* sequences of up to MaxPairSteps words.                                  *)
(***************************************************************************)
StackBases == {U32(8192), U32(4112)}

\* R0..R3 = 1, 2, 3, 4, R4 = 7, R13 = base
StackRegs(base) ==
    [r \in 0..14 |-> CASE r \in 0..3 -> U32(r + 1) [] r = 4 -> U32(7)
                       [] r = 13 -> base [] OTHER -> Zero32]

InitStack ==
    \E base \in StackBases, f \in BOOLEAN :
        /\ cpu = Machine(StackRegs(base), f, f, f, f, TRUE, U32(256), SampleRam)
        /\ before = cpu
        /\ instruction = NoInstruction
        /\ steps = 0
        /\ inter = Interconnect_new

\* {R0, R1, R2, R3}, {R1, R3}, {R4}
StackLists == {\h00F, \h00A, \h010}

\* STMDB R13!, list and LDMIA R13!, list
StackProgram ==
    {Enc(AL, op, 13, 0, l) : op \in {\h92, \h8B}, l \in StackLists}

NextStack == \E i \in StackProgram : Step(i, MaxPairSteps)

SpecStack == InitStack /\ [][NextStack]_vars

\* x - 4 * n, for 4 * n below 2^16
Minus4(x, n) == Diff32(x, U32(4 * n))

\* The step just taken was STMDB Rn!, list with Rn /= PC and a non-empty
\* list holding neither Rn nor PC
RanStmdb ==
    /\ Ran("stm")
    /\ cpu.kernel = <<"stm", "Clear", "Set", "Set">>
    /\ rn(instruction) # 15
    /\ Listed # {}
    /\ rn(instruction) \notin Listed
    /\ 15 \notin Listed

\* After STMDB Rn!, list: Rn = B - 4n and the listed registers are in
\* memory from B - 4n up, lowest register at the lowest address
StmdbEffect ==
    RanStmdb =>
        LET B == before.registers[rn(instruction)]
            n == Cardinality(Listed)
        IN  /\ cpu.registers[rn(instruction)] = Minus4(B, n)
            /\ Len(BusAccesses) = n
            /\ \A j \in Listed :
                   /\ BusAccesses[Rank(j) + 1] =
                          <<"store", Word, Minus4(B, n - Rank(j)),
                            before.registers[j]>>
                   /\ mem_load(cpu.ram, Word,
                               Bits(Minus4(B, n - Rank(j)), 0, 24))
                          = before.registers[j]

\* LDMIA Rn!, list right after STMDB Rn!, list gives every listed register
\* the value it had before the STM and Rn the value B it had
StmdbLdmiaStep ==
    (/\ RanStmdb
     /\ Ran("ldm")'
     /\ cpu'.kernel = <<"ldm", "Set", "Clear", "Set">>
     /\ rn(instruction') = rn(instruction)
     /\ Listed' = Listed) =>
        /\ \A j \in Listed : cpu'.registers[j] = before.registers[j]
        /\ cpu'.registers[rn(instruction)] = before.registers[rn(instruction)]
        /\ Len(BusAccesses') = Cardinality(Listed)

\* C15: for Rn /= PC with value B and a non-empty list holding neither Rn
\* nor PC, n = popcount(list): STMDB Rn!, list leaves Rn = B - 4n and stores
\* the listed registers, lowest register number at the lowest address, at
\* B - 4n, ..., B - 4; a following LDMIA Rn!, list loads every listed
\* register with the value it had before the STM and leaves Rn = B
C15_StmdbLdmiaRoundTrip == [][StmdbEffect /\ StmdbLdmiaStep]_vars

\* LDMIA R13!, {R0-R3} (E8BD000F) has run right after STMDB R13!, {R0-R3}
\* with R13 = 0x2000: R13 was 0x1FF0 in between and is 0x2000 again
C15_Witness ==
    /\ steps = 2
    /\ Ran("ldm")
    /\ instruction = HL(\hE8BD, \h000F)
    /\ before.registers[13] = U32(8176)
    /\ mem_load(before.ram, Word, 8176) = U32(1)
    /\ mem_load(before.ram, Word, 8188) = U32(4)
    /\ cpu.registers[13] = U32(8192)
    /\ \A j \in 0..3 : cpu.registers[j] = U32(j + 1)

(***************************************************************************)
(* Branches: B and BL over the range of the offset field, and BX LR, in    *)
(* sequences of up to MaxPairSteps words.                                  *)
(***************************************************************************)
BranchAddresses == {U32(256), Zero32, U32(32768)}

\* R14 = lr, R2 = 0x201
BranchRegs(lr) ==
    [r \in 0..14 |-> CASE r = 14 -> lr [] r = 2 -> U32(513) [] OTHER -> Zero32]

InitBranch ==
    \E pc \in BranchAddresses, lr \in {Zero32, U32(261)}, f \in BOOLEAN :
        /\ cpu = Machine(BranchRegs(lr), f, f, f, f, TRUE, pc, EmptyRam)
        /\ before = cpu
        /\ instruction = NoInstruction
        /\ steps = 0
        /\ inter = Interconnect_new

\* Offset fields 2, 0, -2, the most negative and the most positive
BranchOffsets == {2, 0, 16777214, 8388608, 8388607}

\* B (link FALSE) or BL (link TRUE) with 24-bit offset field o
BranchWord(link, o) ==
    Enc(AL, (IF link THEN 176 ELSE 160) + (o \div 1048576),
        (o \div 65536) % 16, (o \div 4096) % 16, o % 4096)

\* B and BL on every offset, and BX LR
BranchProgram ==
    {BranchWord(link, o) : link \in BOOLEAN, o \in BranchOffsets}
    \cup {Enc(AL, \h12, 15, 15, \hF1E)}

NextBranch == \E i \in BranchProgram : Step(i, MaxPairSteps)

SpecBranch == InitBranch /\ [][NextBranch]_vars

\* The address of the instruction of the step just taken
InstructionAddress == Minus4(before.next_pc, 1)

\* 4 * signext24(word[23:0]) as a word
SignExt24Times4(w) ==
    [j \in 0..31 |-> IF j < 2 THEN FALSE ELSE IF j < 26 THEN w[j - 2] ELSE w[23]]

\* The word of B with the offset field of w
AsB(w) == [j \in 0..31 |-> IF j = 24 THEN FALSE ELSE w[j]]

\* C16: BL at instruction address A with offset field o sets LR to A + 4 and
\* PC to (A + 8 + 4 * signext24(o)) mod 2^32, the target B with the same
\* field computes at the same address; a later BX LR with LR still A + 4
\* sets PC to A + 4 and clears the Thumb bit; BL with o = 2 at 0x100 gives
\* LR = 0x104 and PC = 0x110
C16_BlLinkAndReturn ==
    /\ Ran("bl") =>
           LET A      == InstructionAddress
               target == Sum32(Sum32(A, U32(8)), SignExt24Times4(instruction))
           IN  /\ cpu.registers[14] = Sum32(A, U32(4))
               /\ cpu.next_pc = target
               /\ cpu.next_pc = b(AsB(instruction), before).next_pc
               /\ (A = U32(256) /\ Bits(instruction, 0, 24) = 2) =>
                      cpu.registers[14] = U32(260) /\ cpu.next_pc = U32(272)
    /\ Ran("b") =>
           cpu.next_pc = Sum32(Sum32(InstructionAddress, U32(8)),
                               SignExt24Times4(instruction))
    /\ (Ran("bx") /\ rm(instruction) = 14
        /\ Bits(before.registers[14], 0, 2) = 0) =>
           /\ cpu.next_pc = before.registers[14]
           /\ ~cpu.thumb

\* BX LR (E12FFF1E) has run right after BL with o = 2 at 0x100: LR is 0x104
\* and the BX, fetched at 0x110, returns to 0x104 in ARM state
C16_Witness ==
    /\ steps = 2
    /\ Ran("bx")
    /\ instruction = HL(\hE12F, \hFF1E)
    /\ InstructionAddress = U32(272)
    /\ before.registers[14] = U32(260)
    /\ cpu.next_pc = U32(260)
    /\ ~cpu.thumb

(***************************************************************************)
(* Base writeback: every load/store slot of the table whose addressing     *)
(* mode writes the base back, with Rd and Rn equal, distinct, and PC.      *)
(***************************************************************************)
WritebackBases == {U32(4096), U32(4100)}

InitWriteback ==
    \E base \in WritebackBases, f \in BOOLEAN :
        /\ cpu = Machine(MemRegs(base, U32(4)), f, f, f, f, TRUE, U32(256),
                         SampleRam)
        /\ before = cpu
        /\ instruction = NoInstruction
        /\ steps = 0
        /\ inter = Interconnect_new

\* <<Rn, Rd>>: distinct, equal, PC as the base, PC as both
WritebackOperands == {<<1, 0>>, <<1, 1>>, <<15, 0>>, <<15, 15>>}

\* Mode 2 immediate post- and pre-indexed, offset 4: STRB/STR/LDR/LDRB
Mode2ImmWriteback == {\h44, \h48, \h49, \h4C, \h4D,
                      \h52, \h53, \h5A, \h5B, \h5E, \h5F}

\* Mode 2 [Rn, R2, LSL #0]!: LDR, STRB, LDRB
Mode2RegWriteback == {\h7B, \h7E, \h7F}

\* Mode 3 immediate, offset 4: STRH/LDRH post-indexed, STRH/LDRH pre-indexed
Mode3Writeback == {\h0C, \h0D, \h16, \h1F}

WritebackProgram ==
    {Enc(AL, op, p[1], p[2], \h004) :
        op \in Mode2ImmWriteback, p \in WritebackOperands}
    \cup {Enc(AL, op, p[1], p[2], \h002) :
        op \in Mode2RegWriteback, p \in WritebackOperands}
    \cup {Enc(AL, op, p[1], p[2], \h0B4) :
        op \in Mode3Writeback, p \in WritebackOperands}

NextWriteback == \E i \in WritebackProgram : Step(i, MaxSteps)

SpecWriteback == InitWriteback /\ [][NextWriteback]_vars

WritebackModes == {"Mode2ImmPre", "Mode2ImmPost", "Mode2LslRegPre",
                   "Mode3ImmPre", "Mode3ImmPost"}

\* The step dispatched a load/store kernel with a base-writeback mode
WritebackDispatched ==
    /\ Len(cpu.kernel) >= 2
    /\ cpu.kernel[2] \in WritebackModes

\* C17: every load/store kernel dispatched with a base-writeback addressing
\* mode (mode 2 immediate pre- and post-indexed, mode 2 LSL-scaled-register
\* pre-indexed, mode 3 immediate pre- and post-indexed) ends in failure when
\* Rd equals Rn, before the base is modified and before any bus access
C17_WritebackRdIsRnFails ==
    (WritebackDispatched /\ rd(instruction) = rn(instruction)) =>
        /\ panicked(cpu)
        /\ cpu.registers = before.registers
        /\ cpu.next_pc = before.next_pc
        /\ cpu.log = <<>>

\* C18: no step writes a base back to R15: every load/store addressing mode
\* with writeback fails when Rn is 15, without writing any register or
\* issuing any bus access
C18_WritebackToPcFails ==
    (WritebackDispatched /\ rn(instruction) = 15) =>
        /\ panicked(cpu)
        /\ Writes = <<>>
        /\ BusAccesses = <<>>

(***************************************************************************)
(* Shifts by immediate: MOV and MOVS R0, R2 with LSL, LSR and ASR by every *)
(* shift field, and ROR by the even ones (RRX is ROR with field 0).        *)
(***************************************************************************)
ShiftRms == {U32(1), U32(2), HL(\h4000, 0), HL(\h8000, 0),
             HL(\h1234, \h5678), HL(\hFFFF, \hFFFF)}

InitShift ==
    \E m \in ShiftRms, fc \in BOOLEAN :
        /\ cpu = Machine([r \in 0..14 |-> IF r = 2 THEN m ELSE Zero32],
                         FALSE, FALSE, fc, FALSE, TRUE, U32(256), EmptyRam)
        /\ before = cpu
        /\ instruction = NoInstruction
        /\ steps = 0
        /\ inter = Interconnect_new

\* MOV (s FALSE) or MOVS (s TRUE) R0, R2, <ty> #n; ty: 0 LSL, 1 LSR, 2 ASR,
\* 3 ROR
ShiftWord(s, ty, n) ==
    Enc(AL, IF s THEN \h1B ELSE \h1A, 0, 0, (n * 128) + (ty * 32) + 2)

ShiftProgram ==
    {ShiftWord(s, ty, n) : s \in BOOLEAN, ty \in 0..2, n \in 0..31}
    \cup {ShiftWord(s, 3, 2 * n) : s \in BOOLEAN, n \in 0..15}

NextShift == \E i \in ShiftProgram : Step(i, MaxSteps)

SpecShift == InitShift /\ [][NextShift]_vars

\* The step's evaluator is M
Evaluator(M) == Len(cpu.kernel) >= 2 /\ cpu.kernel[2] = M

ShiftField == Bits(instruction, 7, 5)

RmValue == before.registers[rm(instruction)]

\* C19: ROR by immediate with shift field 0 is rotate right with extend: for
\* every Rm and every current C the operand is (C << 31) | (Rm >> 1) and the
\* carry-out is bit 0 of Rm, so MOVS Rd, Rm, RRX leaves C equal to the
\* pre-step Rm[0]
C19_RrxOperandAndCarry ==
    (Evaluator("Mode1RorImm") /\ ShiftField = 0) =>
        LET rrx == [j \in 0..31 |-> IF j = 31 THEN before.c ELSE RmValue[j + 1]]
            vc  == Mode1RorImm_value_carry(instruction, before)
        IN  /\ Mode1RorImm_value(instruction, before) = rrx
            /\ vc.val = rrx
            /\ vc.carry = RmValue[0]
            /\ Ran("movs") => cpu.registers[rd(instruction)] = rrx
                              /\ cpu.c = RmValue[0]

\* The operand and carry-out of shift M by field n on m, with carry-in cin
ShiftedBy(M, m, n, cin) ==
    CASE M = "Mode1LslImm" ->
             [val   |-> [j \in 0..31 |-> IF j >= n THEN m[j - n] ELSE FALSE],
              carry |-> IF n = 0 THEN cin ELSE m[32 - n]]
      [] M = "Mode1LsrImm" ->
             [val   |-> [j \in 0..31 |->
                            IF n # 0 /\ j + n <= 31 THEN m[j + n] ELSE FALSE],
              carry |-> IF n = 0 THEN m[31] ELSE m[n - 1]]
      [] M = "Mode1AsrImm" ->
             [val   |-> [j \in 0..31 |->
                            IF n # 0 /\ j + n <= 31 THEN m[j + n] ELSE m[31]],
              carry |-> IF n = 0 THEN m[31] ELSE m[n - 1]]

\* C20: LSL, LSR and ASR by immediate with shift field s: for s in 1..31 the
\* operand is Rm shifted by s (zero fill for LSL and LSR, sign fill for ASR)
\* and the carry-out is the last bit shifted out (bit 32-s for LSL, bit s-1
\* for LSR and ASR); for s = 0, LSL yields Rm with the current C, LSR yields
\* 0 with Rm[31], ASR yields 32 copies of Rm[31] with Rm[31]; value()
\* returns the operand of value_carry()
C20_ImmediateShifts ==
    \A M \in {"Mode1LslImm", "Mode1LsrImm", "Mode1AsrImm"} :
        Evaluator(M) =>
            LET want == ShiftedBy(M, RmValue, ShiftField, before.c)
                vc   == value_carry(M, instruction, before)
            IN  /\ vc.val = want.val
                /\ vc.carry = want.carry
                /\ value(M, instruction, before) = vc.val
                /\ Ran("mov") => cpu.registers[rd(instruction)] = want.val
                /\ Ran("movs") => cpu.registers[rd(instruction)] = want.val
                                  /\ cpu.c = want.carry

\* MOV R0, R2, LSR #32 (E1A00022) has run on R2 = 0x80000000: R0 = 0
C20_Witness ==
    /\ Ran("mov")
    /\ instruction = HL(\hE1A0, \h0022)
    /\ before.registers[2] = HL(\h8000, 0)
    /\ cpu.registers[0] = Zero32

(***************************************************************************)
(* Shifts by register: R2 shifted by R3, for MOV and for the flag-setting  *)
(* logical kernels the table pairs with these operand forms.               *)
(***************************************************************************)
RegShiftRms == {U32(1), HL(\h8000, 0), HL(\h1234, \h5678), HL(\hFFFF, \hFFFF)}

\* Rs with low byte 0, 1, 2, 31, 32, 33, 64, 255, and 0, 1, 32 under high bits
RegShiftCounts == {U32(0), U32(1), U32(2), U32(31), U32(32), U32(33), U32(64),
                   U32(255), U32(256), HL(\hFFFF, \hFF01), U32(288)}

InitRegShift ==
    \E m \in RegShiftRms, n \in RegShiftCounts, fc \in BOOLEAN :
        /\ cpu = Machine(Regs123(U32(0), m, n), FALSE, FALSE, fc, FALSE, TRUE,
                         U32(256), EmptyRam)
        /\ before = cpu
        /\ instruction = NoInstruction
        /\ steps = 0
        /\ inter = Interconnect_new

RegShiftProgram ==
    \* MOV R0, R2, LSL/LSR/ASR/ROR R3
    {Enc(AL, \h1A, 0, 0, sh) : sh \in RegShifts}
    \* TST R1, R2, <shift> R3 and ORRS R0, R1, R2, <shift> R3
    \cup {Enc(AL, op, 1, 0, sh) : op \in {\h11, \h19}, sh \in RegShifts}
    \* MOVS R0, R2, LSL/LSR R3 and BICS R0, R1, R2, LSL R3
    \cup {Enc(AL, \h1B, 0, 0, \h312), Enc(AL, \h1B, 0, 0, \h332),
          Enc(AL, \h1D, 1, 0, \h312)}

NextRegShift == \E i \in RegShiftProgram : Step(i, MaxSteps)

SpecRegShift == InitRegShift /\ [][NextRegShift]_vars

RegShiftForms == {"Mode1LslReg", "Mode1LsrReg", "Mode1AsrReg", "Mode1RorReg"}

\* n = (value of Rs) & 0xFF
ShiftCount == Bits(before.registers[rs(instruction)], 0, 8)

\* Rm shifted by n in 0..255 under register-shifted form M
RegShifted(M, m, n) ==
    CASE M = "Mode1LslReg" ->
             [j \in 0..31 |-> IF n < 32 /\ j >= n THEN m[j - n] ELSE FALSE]
      [] M = "Mode1LsrReg" ->
             [j \in 0..31 |-> IF n < 32 /\ j + n <= 31 THEN m[j + n] ELSE FALSE]
      [] M = "Mode1AsrReg" ->
             [j \in 0..31 |-> IF n < 32 /\ j + n <= 31 THEN m[j + n] ELSE m[31]]
      [] M = "Mode1RorReg" ->
             [j \in 0..31 |-> m[(j + n) % 32]]

\* C21: the register-shifted operand forms with n = Rs & 0xFF: LSL yields
\* (Rm << n) mod 2^32 for n < 32 and 0 for n >= 32; LSR yields Rm >> n for
\* n < 32 and 0 for n >= 32; ASR yields the arithmetic shift for n < 32 and
\* 32 copies of Rm[31] for n >= 32; ROR yields Rm rotated right by n mod 32
C21_RegisterShifts ==
    \A M \in RegShiftForms :
        Evaluator(M) =>
            LET want == RegShifted(M, RmValue, ShiftCount)
            IN  /\ value(M, instruction, before) = want
                /\ Ran("mov") => cpu.registers[rd(instruction)] = want

\* MOV R0, R2, ASR R3 (E1A00352) has run with R2 = 0x80000000 and R3 = 32:
\* R0 is 32 copies of the sign
C21_Witness ==
    /\ Ran("mov")
    /\ instruction = HL(\hE1A0, \h0352)
    /\ before.registers[2] = HL(\h8000, 0)
    /\ before.registers[3] = U32(32)
    /\ cpu.registers[0] = HL(\hFFFF, \hFFFF)

\* The carry-out of register-shifted form M on m by n in 0..255, carry-in cin
RegShiftCarry(M, m, n, cin) ==
    IF n = 0 THEN cin
    ELSE CASE M = "Mode1LslReg" -> IF n <= 32 THEN m[32 - n] ELSE FALSE
           [] M = "Mode1LsrReg" -> IF n <= 32 THEN m[n - 1] ELSE FALSE
           [] M = "Mode1AsrReg" -> IF n < 32 THEN m[n - 1] ELSE m[31]
           [] M = "Mode1RorReg" -> IF n % 32 = 0 THEN m[31]
                                   ELSE m[(n % 32) - 1]

\* C22: every table slot that pairs TST, ORRS, MOVS or BICS with a
\* register-shifted operand form runs to completion without failure and sets
\* C to the shifter carry-out: the current C when Rs & 0xFF = 0, otherwise
\* the last bit shifted out (bit 31 of Rm for ROR by a non-zero multiple of
\* 32)
C22_RegisterShiftCarry ==
    \A M \in RegShiftForms :
        (Evaluator(M) /\ cpu.kernel[1] \in {"tst", "orrs", "movs", "bics"}) =>
            /\ ~panicked(cpu)
            /\ cpu.c = RegShiftCarry(M, RmValue, ShiftCount, before.c)

(***************************************************************************)
(* MOV, MOVS and MVN with the Rn field zero and non-zero.                  *)
(***************************************************************************)
InitMoveRn ==
    \E y \in LogicVals, f \in BOOLEAN :
        /\ cpu = Machine(Regs123(U32(5), y, U32(1)), f, f, f, f, TRUE, U32(256),
                         EmptyRam)
        /\ before = cpu
        /\ instruction = NoInstruction
        /\ steps = 0
        /\ inter = Interconnect_new

MoveRnFields == {0, 1, 15}

MoveRnProgram ==
    \* MOV, MOVS, MVN R0, R2 and R0, R2, LSL #1
    {Enc(AL, op, n, 0, sh) : op \in {\h1A, \h1B, \h1E}, n \in MoveRnFields,
                             sh \in {\h002, \h082}}
    \* MOV, MVN R0, #0xFF
    \cup {Enc(AL, op, n, 0, \h0FF) : op \in {\h3A, \h3E}, n \in MoveRnFields}

NextMoveRn == \E i \in MoveRnProgram : Step(i, MaxSteps)

SpecMoveRn == InitMoveRn /\ [][NextMoveRn]_vars

\* C23: every data-processing instruction with opcode 13 (MOV, with or
\* without the S bit) or opcode 15 (MVN) whose Rn field is non-zero is
\* rejected as malformed: the step fails and Rd and the flags are unchanged
C23_MoveNonZeroRnFails ==
    (/\ cpu.kernel # <<>>
     /\ cpu.kernel[1] \in {"mov", "movs", "mvn"}
     /\ rn(instruction) # 0) =>
        /\ panicked(cpu)
        /\ cpu.registers[rd(instruction)] = before.registers[rd(instruction)]
        /\ Flags(cpu) = Flags(before)

(***************************************************************************)
(* Multiplies: MUL, MULS, MLA and MLAS R1 <- R2 * R3 (+ R4), and the same   *)
(* with PC in each register field.                                         *)
(***************************************************************************)
MulVals == {U32(0), U32(3), U32(65536), HL(\h8000, 1), HL(\h1234, \h5678),
            HL(\hFFFF, \hFFFF)}

\* R2 = x, R3 = y, R4 = acc
MulRegs(x, y, acc) ==
    [r \in 0..14 |-> CASE r = 2 -> x [] r = 3 -> y [] r = 4 -> acc
                       [] OTHER -> Zero32]

InitMul ==
    \E x \in MulVals, y \in MulVals, acc \in {U32(1), HL(\hFFFF, \hFFFF)},
       f \in BOOLEAN :
        /\ cpu = Machine(MulRegs(x, y, acc), f, f, f, f, TRUE, U32(256),
                         EmptyRam)
        /\ before = cpu
        /\ instruction = NoInstruction
        /\ steps = 0
        /\ inter = Interconnect_new

\* The multiply encoding: accumulate and S bits, destination (in the Rn
\* field), accumulator (in the Rd field), Rs and Rm
MulWord(acc, s, d, a, ms, mm) ==
    Enc(AL, (IF acc THEN 2 ELSE 0) + (IF s THEN 1 ELSE 0), d, a,
        (ms * 256) + 144 + mm)

MulProgram ==
    \* MUL, MULS R1, R2, R3 and MLA, MLAS R1, R2, R3, R4
    {MulWord(acc, s, 1, 4, 3, 2) : acc \in BOOLEAN, s \in BOOLEAN}
    \* PC as the destination, as Rs, as Rm
    \cup {MulWord(acc, FALSE, 15, 4, 3, 2) : acc \in BOOLEAN}
    \cup {MulWord(acc, FALSE, 1, 4, 15, 2) : acc \in BOOLEAN}
    \cup {MulWord(acc, FALSE, 1, 4, 3, 15) : acc \in BOOLEAN}
    \* PC as the accumulator of MLA, and in the unused field of MUL
    \cup {MulWord(acc, FALSE, 1, 15, 3, 2) : acc \in BOOLEAN}

NextMul == \E i \in MulProgram : Step(i, MaxSteps)

SpecMul == InitMul /\ [][NextMul]_vars

RECURSIVE ColumnTotal(_, _, _)
\* Binary long multiplication: the ones in column k of the partial products
\* of x * y, plus the carry from column k - 1
ColumnTotal(x, y, k) ==
    Cardinality({j \in 0..k : x[j] /\ y[k - j]})
    + (IF k = 0 THEN 0 ELSE ColumnTotal(x, y, k - 1) \div 2)

\* (x * y) mod 2^32
Prod32(x, y) == [k \in 0..31 |-> ColumnTotal(x, y, k) % 2 = 1]

\* The word is a multiply: bits 27..22 are 0 and bits 7..4 are 1001
MultiplyWord == Bits(instruction, 22, 6) = 0 /\ Bits(instruction, 4, 4) = 9

Accumulate == instruction[21]

SBit == instruction[20]

\* C24: MUL writes (Rm * Rs) mod 2^32, and MLA writes (Rm * Rs + the register
\* named by word[15:12]) mod 2^32, into the register named by word[19:16];
\* each fails without changing any register or flag when a register field
\* it uses is 15; with the S bit N = result[31] and Z = (result = 0) while C
\* and V are unchanged, and without the S bit no flag changes
C24_MulMla ==
    (steps > 0 /\ MultiplyWord) =>
        LET product == Prod32(RmValue, before.registers[rs(instruction)])
            want    == IF Accumulate
                       THEN Sum32(product, before.registers[rd(instruction)])
                       ELSE product
            uses_pc == \/ 15 \in {rn(instruction), rm(instruction),
                                  rs(instruction)}
                       \/ Accumulate /\ rd(instruction) = 15
        IN  IF uses_pc
            THEN /\ panicked(cpu)
                 /\ cpu.registers = before.registers
                 /\ Flags(cpu) = Flags(before)
            ELSE /\ ~panicked(cpu)
                 /\ cpu.registers[rn(instruction)] = want
                 /\ \A r \in 0..14 :
                        r # rn(instruction) =>
                            cpu.registers[r] = before.registers[r]
                 /\ SBit => Flags(cpu) = <<want[31], want = Zero32,
                                           before.c, before.v>>
                 /\ ~SBit => Flags(cpu) = Flags(before)

(***************************************************************************)
(* Address evaluators of modes 2 and 3: stores and loads of R0 through R1  *)
(* (and through PC for the offset form), with every evaluator and U flag   *)
(* the table dispatches, on bases next to 0 and to 2^32.                   *)
(***************************************************************************)
AddressBases == {U32(4096), Zero32, HL(\hFFFF, \hFFFC)}

AddressRms == {U32(4), HL(\h4000, 1), HL(\hFFFF, \hFFFF)}

InitAddress ==
    \E base \in AddressBases, m \in AddressRms :
        /\ cpu = Machine(MemRegs(base, m), FALSE, FALSE, FALSE, FALSE, TRUE,
                         U32(256), EmptyRam)
        /\ before = cpu
        /\ instruction = NoInstruction
        /\ steps = 0
        /\ inter = Interconnect_new

AddressProgram ==
    \* STR, STRB R0, [R1, #+/-imm] and [PC, #+/-imm]
    {Enc(AL, op, n, 0, imm) : op \in {\h50, \h58, \h54, \h5C}, n \in {1, 15},
                              imm \in {\h000, \h004, \hFFF}}
    \* STR R0, [R1, #+/-imm]!, STRB R0, [R1, #imm]!
    \* STR, STRB R0, [R1], #imm, STRB R0, [R1], #-imm
    \cup {Enc(AL, op, 1, 0, imm) : op \in {\h52, \h5A, \h5E, \h48, \h4C, \h44},
                                   imm \in {\h000, \h004, \hFFF}}
    \* STR, STRB R0, [R1, R2, LSL #n] and STRB, LDRB R0, [R1, R2, LSL #n]!
    \cup {Enc(AL, op, 1, 0, sh) : op \in {\h78, \h7C, \h7E, \h7F},
                                  sh \in {\h002, \h082, \h102, \hF82}}
    \* LDR R0, [R1, R2, LSL #n]!
    \cup {Enc(AL, \h7B, 1, 0, sh) : sh \in {\h002, \h102}}
    \* STRH R0, [R1, #+/-imm], [R1, #-imm]!, [R1], #imm;
    \* LDRH R0, [R1, #imm]!, [R1], #imm
    \cup {Enc(AL, op, 1, 0, imm) : op \in {\h14, \h1C, \h16, \h0C, \h1F, \h0D},
                                   imm \in {\h0B0, \h1B4, \hFBF}}
    \* STRH R0, [R1, R2]
    \cup {Enc(AL, \h18, 1, 0, \h0B2)}

NextAddress == \E i \in AddressProgram : Step(i, MaxSteps)

SpecAddress == InitAddress /\ [][NextAddress]_vars

OffsetForms == {"Mode2Imm", "Mode2LslReg", "Mode3Imm", "Mode3Reg"}

PreIndexedForms == {"Mode2ImmPre", "Mode2LslRegPre", "Mode3ImmPre"}

PostIndexedForms == {"Mode2ImmPost", "Mode3ImmPost"}

\* The offset the word encodes for evaluator M
DecodedOffset(M) ==
    CASE M \in {"Mode2Imm", "Mode2ImmPre", "Mode2ImmPost"} ->
             U32(Bits(instruction, 0, 12))
      [] M \in {"Mode3Imm", "Mode3ImmPre", "Mode3ImmPost"} ->
             U32((16 * Bits(instruction, 8, 4)) + Bits(instruction, 0, 4))
      [] M = "Mode3Reg" -> RmValue
      [] M \in {"Mode2LslReg", "Mode2LslRegPre"} ->
             [j \in 0..31 |-> IF j >= ShiftField THEN RmValue[j - ShiftField]
                              ELSE FALSE]

\* base +/- off mod 2^32, the sign from the U flag (bit 23)
Displaced(M) ==
    IF instruction[23] THEN Sum32(RnValue, DecodedOffset(M))
    ELSE Diff32(RnValue, DecodedOffset(M))

\* r as the only register that may differ between c and the state before
OnlyWritten(c, r, val) ==
    /\ c.registers[r] = val
    /\ \A q \in 0..15 : q # r => c.registers[q] = before.registers[q]
    /\ c.next_pc = before.next_pc

BlockAddressBases == {Zero32, U32(4), U32(4096), HL(\hFFFF, \hFFF8),
                      HL(\hFFFF, \hFFFC)}

InitBlockAddress ==
    \E base \in BlockAddressBases, dbg \in BOOLEAN :
        /\ cpu = Machine(MemRegs(base, Zero32), FALSE, FALSE, FALSE, FALSE, dbg,
                         U32(256), EmptyRam)
        /\ before = cpu
        /\ instruction = NoInstruction
        /\ steps = 0
        /\ inter = Interconnect_new

\* {R4}, {R4, R5}, {R0, R4, R5}
BlockAddressLists == {\h010, \h030, \h031}

\* STMIA, LDMIA, STMIA!, LDMIA!, LDMDB, STMDB! on R1
BlockAddressProgram ==
    {Enc(AL, op, 1, 0, list) : op \in {\h88, \h89, \h8A, \h8B, \h91, \h92},
                               list \in BlockAddressLists}

\* mode4_start_wb::<U, P>(R1, list of i), its result kept in the log
StartWb(U, P, i) ==
    /\ steps < MaxSteps
    /\ ~panicked(cpu)
    /\ ~cpu.thumb
    /\ LET c0 == [fetched(cpu) EXCEPT
                     !.kernel = <<"mode4_start_wb", IF U THEN "Set" ELSE "Clear",
                                  IF P THEN "Set" ELSE "Clear">>]
           sw == mode4_start_wb(U, P, reg(c0, rn(i)), register_list(i), c0)
       IN  /\ before' = fetched(cpu)
           /\ cpu' = Log(sw.cpu, <<"start_wb", sw.start, sw.wb>>)
    /\ instruction' = i
    /\ steps' = steps + 1
    /\ UNCHANGED inter

NextBlockAddress ==
    \/ \E i \in BlockAddressProgram : Step(i, MaxSteps)
    \/ \E U \in BOOLEAN, P \in BOOLEAN, list \in BlockAddressLists :
           StartWb(U, P, Enc(AL, 128 + (IF P THEN 16 ELSE 0)
                                     + (IF U THEN 8 ELSE 0), 1, 0, list))

SpecBlockAddress == InitBlockAddress /\ [][NextBlockAddress]_vars

\* 4 * popcount(list)
ListBytes == U32(4 * Cardinality(Listed))

\* The start address by the U (bit 23) and P (bit 24) flags of the word
StartAddress ==
    CASE instruction[23] /\ instruction[24]   -> Sum32(RnValue, U32(4))
      [] instruction[23] /\ ~instruction[24]  -> RnValue
      [] ~instruction[23] /\ instruction[24]  -> Diff32(RnValue, ListBytes)
      [] ~instruction[23] /\ ~instruction[24] ->
             Sum32(Diff32(RnValue, ListBytes), U32(4))

WritebackValue ==
    IF instruction[23] THEN Sum32(RnValue, ListBytes)
    ELSE Diff32(RnValue, ListBytes)

\* The k-th lowest-numbered listed register, k from 1
ListedAt(k) == CHOOSE j \in Listed : Rank(j) = k - 1

TableWord(op, hi) ==
    HL((AL * 4096) + ((op \div 16) * 16) + 1, (hi * 256) + ((op % 16) * 16) + 2)

InitTable ==
    \E op \in 0..4095, hi \in {0, 1} :
        /\ cpu = Machine(MemRegs(U32(4096), U32(4)), FALSE, FALSE, FALSE, FALSE,
                         TRUE, U32(256), SampleRam)
        /\ before = cpu
        /\ instruction = TableWord(op, hi)
        /\ steps = 0
        /\ inter = Interconnect_new

\* The interpreter step on the word drawn
Dispatch ==
    /\ steps < MaxSteps
    /\ ~panicked(cpu)
    /\ ~cpu.thumb
    /\ before' = fetched(cpu)
    /\ cpu' = execute(instruction, fetched(cpu))
    /\ instruction' = instruction
    /\ steps' = steps + 1
    /\ UNCHANGED inter

SpecTable == InitTable /\ [][Dispatch]_vars

\* The opcode number and S flag each data-processing kernel asserts
DataOpcode(k) ==
    CASE k = "and" -> <<0, FALSE>>   [] k = "ands" -> <<0, TRUE>>
      [] k = "eor" -> <<1, FALSE>>   [] k = "eors" -> <<1, TRUE>>
      [] k = "sub" -> <<2, FALSE>>   [] k = "subs" -> <<2, TRUE>>
      [] k = "rsb" -> <<3, FALSE>>   [] k = "rsbs" -> <<3, TRUE>>
      [] k = "add" -> <<4, FALSE>>   [] k = "adds" -> <<4, TRUE>>
      [] k = "adc" -> <<5, FALSE>>
      [] k = "tst" -> <<8, TRUE>>    [] k = "teq"  -> <<9, TRUE>>
      [] k = "cmp" -> <<10, TRUE>>   [] k = "cmn"  -> <<11, TRUE>>
      [] k = "orr" -> <<12, FALSE>>  [] k = "orrs" -> <<12, TRUE>>
      [] k = "mov" -> <<13, FALSE>>  [] k = "movs" -> <<13, TRUE>>
      [] k = "bic" -> <<14, FALSE>>  [] k = "bics" -> <<14, TRUE>>
      [] k = "mvn" -> <<15, FALSE>>

DataKernels == {"and", "ands", "eor", "eors", "sub", "subs", "rsb", "rsbs",
                "add", "adds", "adc", "tst", "teq", "cmp", "cmn", "orr", "orrs",
                "mov", "movs", "bic", "bics", "mvn"}

\* The table entry h agrees with the encoding of w
SlotAgrees(h, w) ==
    CASE h[1] \in DataKernels ->
             Mode1_is_valid(h[2], w, DataOpcode(h[1])[1], DataOpcode(h[1])[2])
      [] h[1] \in {"ldr", "str", "ldrb", "strb"} ->
             Mode2_is_valid(h[2], Set(h[3]), w, h[1] \in {"ldr", "ldrb"},
                            h[1] \in {"ldrb", "strb"})
      [] h[1] \in {"ldrh", "strh", "ldrsh", "ldrsb"} ->
             Mode3_is_valid(h[2], Set(h[3]), w, h[1] # "strh", h[1] = "ldrsb",
                            h[1] \in {"ldrsh", "ldrsb"})
      [] h[1] \in {"ldm", "ldms", "stm"} ->
             /\ w[24] = Set(h[3])
             /\ w[23] = Set(h[2])
             /\ w[22] = (h[1] = "ldms")
             /\ w[21] = Set(h[4])
             /\ w[20] = (h[1] # "stm")
      [] OTHER -> TRUE

\* C27: for every instruction word w the kernel in the slot of w agrees with
\* w's encoding, so that no internal consistency assertion can fail: the
\* is_valid predicate of a data-processing or load/store kernel's evaluator
\* holds for w, and the P, U, S, W, L parameters of an LDM/STM kernel equal
\* bits 24..20 of w
C27_TableAgreesWithEncoding ==
    steps > 0 =>
        /\ SlotAgrees(OPCODE_LUT[opcode(instruction)], instruction)
        /\ cpu.panic # "assertion failed"

(***************************************************************************)
(* The real-time clock driven from Rtc::new() by Rtc::tick calls and by    *)
(* word stores to its MODE and ADJUST registers through the interconnect.  *)
(***************************************************************************)
MaxRtcSteps == 24

\* Region 0x0b, offset 0x800000 + 0: the MODE register of the RTC
RTC_MODE == (\h0b * 16777216) + \h800000

\* Region 0x0b, offset 0x800000 + 4: the ADJUST register of the RTC
RTC_ADJUST == RTC_MODE + 4

\* MODE values: adjust seconds running, adjust seconds paused, adjust day,
\* adjust month, and the adjust selector 7 that no counter answers
RtcModes == {\h00, \h01, \h08, \h0A, \h0E}

\* Half a second and a full second of master clock
RtcTicks == {MASTER_DIVIDER, 2 * MASTER_DIVIDER}

IdleCpu ==
    Machine(MemRegs(U32(4096), Zero32), FALSE, FALSE, FALSE, FALSE, TRUE,
            U32(256), EmptyRam)

InitRtc ==
    /\ cpu = IdleCpu
    /\ before = cpu
    /\ instruction = NoInstruction
    /\ steps = 0
    /\ inter = Interconnect_new

\* Rtc::tick(irq_controller, n)
RtcTick(n, max) ==
    /\ steps < max
    /\ ~panicked(inter)
    /\ inter' = tick(inter, n)
    /\ steps' = steps + 1
    /\ UNCHANGED <<cpu, before, instruction>>

\* Interconnect::store::<Word>(addr, v) on an RTC register
RtcStore(addr, v) ==
    /\ steps < MaxRtcSteps
    /\ ~panicked(inter)
    /\ inter' = Interconnect_store(inter, 4, addr, v)
    /\ steps' = steps + 1
    /\ UNCHANGED <<cpu, before, instruction>>

NextRtc ==
    \/ \E n \in RtcTicks : RtcTick(n, MaxRtcSteps)
    \/ \E v \in RtcModes : RtcStore(RTC_MODE, v)
    \/ RtcStore(RTC_ADJUST, 0)

SpecRtc == InitRtc /\ [][NextRtc]_vars

\* x is packed BCD (two decimal digits) between lo and hi
BcdBetween(x, lo, hi) ==
    /\ x \in 0..255
    /\ x % 16 <= 9
    /\ x \div 16 <= 9
    /\ lo <= x
    /\ x <= hi

\* C28: after any sequence of ticks and MODE / ADJUST stores from Rtc::new()
\* every calendar field is packed BCD inside its documented range (seconds
\* and minutes 00..59, hours 00..23, week_day 01..07, day 01..31, month
\* 01..12, year 00..99), and day_elapsed never reaches its unreachable!() arm.
C28_CalendarInRange ==
    /\ BcdBetween(inter.rtc.seconds, \h00, \h59)
    /\ BcdBetween(inter.rtc.minutes, \h00, \h59)
    /\ BcdBetween(inter.rtc.hours, \h00, \h23)
    /\ BcdBetween(inter.rtc.week_day, \h01, \h07)
    /\ BcdBetween(inter.rtc.day, \h01, \h31)
    /\ BcdBetween(inter.rtc.month, \h01, \h12)
    /\ BcdBetween(inter.rtc.year, \h00, \h99)
    /\ inter.panic # "internal error: entered unreachable code"

(***************************************************************************)
(* Rtc::tick from clocks the program reaches: the divider full, nearly     *)
(* spent or spent, the RTC line low or high, the clock running or paused,  *)
(* and the calendar fresh, before a carry of the seconds' low digit, and   *)
(* one second before the end of a day, of February and of the century.     *)
(***************************************************************************)
TickDividers == {0, 1, MASTER_DIVIDER - 1, MASTER_DIVIDER}

\* seconds, minutes, hours, week_day, day, month, year
TickCalendars ==
    {<<\h00, \h00, \h00, \h01, \h01, \h01, \h99>>,
     <<\h09, \h00, \h00, \h01, \h01, \h01, \h99>>,
     <<\h59, \h59, \h23, \h03, \h28, \h02, \h00>>,
     <<\h59, \h59, \h23, \h07, \h31, \h12, \h99>>}

InitTick ==
    \E d \in TickDividers, lv \in BOOLEAN, halted \in BOOLEAN,
       cal \in TickCalendars :
        /\ cpu = IdleCpu
        /\ before = cpu
        /\ instruction = NoInstruction
        /\ steps = 0
        /\ inter = [Interconnect_new EXCEPT
                       !.rtc.divider = d, !.rtc.paused = halted,
                       !.rtc.seconds = cal[1], !.rtc.minutes = cal[2],
                       !.rtc.hours = cal[3], !.rtc.week_day = cal[4],
                       !.rtc.day = cal[5], !.rtc.month = cal[6],
                       !.rtc.year = cal[7],
                       !.irq_controller.raw_rtc = lv]

\* No tick, one tick, around one divider period, two periods, three and a bit
TickAmounts ==
    {0, 1, MASTER_DIVIDER - 1, MASTER_DIVIDER, MASTER_DIVIDER + 1,
     2 * MASTER_DIVIDER, (3 * MASTER_DIVIDER) + 7}

NextTick == \E n \in TickAmounts : RtcTick(n, MaxPairSteps)

SpecTick == InitTick /\ [][NextTick]_vars

\* The divider, the raw RTC line and the calendar
Clock(p) ==
    <<p.rtc.divider, raw_interrupt(p), p.rtc.seconds, p.rtc.minutes,
      p.rtc.hours, p.rtc.week_day, p.rtc.day, p.rtc.month, p.rtc.year>>

\* Times the line toggles while n ticks pass with d left in the divider:
\* once when the ticks first exceed d, then once per further full period
Toggles(d, n) ==
    IF n <= d THEN 0 ELSE ((n - d) + (MASTER_DIVIDER - 1)) \div MASTER_DIVIDER

\* Low-to-high toggles among k toggles of a line at level lv
RisingEdges(lv, k) == IF lv THEN k \div 2 ELSE (k + 1) \div 2

\* The number a packed BCD byte stands for
Binary(x) == ((x \div 16) * 10) + (x % 16)

\* C29: tick(a) followed by tick(b) leaves the same divider, raw RTC line
\* and calendar as tick(a + b); every call ends with its ticks consumed; the
\* divider stays in 0..MASTER_DIVIDER; and the seconds advance once per
\* low-to-high toggle of the line while the clock is not paused, and never
\* otherwise.  Stated of every clock a call of tick has left.
C29_TickSplitIndependent ==
    steps > 0 =>
        \A a \in TickAmounts :
            LET once == tick_run(inter, a)
                k == Toggles(inter.rtc.divider, a)
                up == IF inter.rtc.paused THEN 0
                      ELSE RisingEdges(raw_interrupt(inter), k)
            IN  /\ once.master_ticks = 0
                /\ ~panicked(once.inter)
                /\ once.inter.rtc.divider \in 0..MASTER_DIVIDER
                /\ once.inter.rtc.divider
                       = (inter.rtc.divider + (k * MASTER_DIVIDER)) - a
                /\ raw_interrupt(once.inter) = (raw_interrupt(inter) # (k % 2 = 1))
                /\ Binary(once.inter.rtc.seconds)
                       = (Binary(inter.rtc.seconds) + up) % 60
                /\ \A n \in TickAmounts :
                       Clock(tick(once.inter, n)) = Clock(tick(inter, a + n))

\* Two calls have been made and left the divider spent with the line low and
\* the clock running: one more tick is a second
C29_Witness ==
    /\ steps = 2
    /\ inter.rtc.divider = 0
    /\ ~raw_interrupt(inter)
    /\ ~inter.rtc.paused
    /\ tick(inter, 1).rtc.seconds # inter.rtc.seconds

(***************************************************************************)
(* Word loads and stores on the timer registers through the interconnect.  *)
(* The log keeps each bus access, the timer access it became and the value *)
(* a load returned.                                                        *)
(***************************************************************************)
\* Region 0x0a, offset 0x800000: the first timer register
TIMER_BASE == (\h0a * 16777216) + \h800000

\* Three registers for each of the three timers, 0x10 apart
TimerAddresses ==
    {TIMER_BASE + (k * 16) + o : k \in 0..2, o \in {0, 4, 8}}

TimerValues == {1, 2}

InitTimer ==
    /\ cpu = IdleCpu
    /\ before = cpu
    /\ instruction = NoInstruction
    /\ steps = 0
    /\ inter = Interconnect_new

\* Interconnect::store::<Word>(addr, v)
BusStore(addr, v) ==
    /\ steps < MaxPairSteps
    /\ ~panicked(inter)
    /\ inter' = Interconnect_store(Log(inter, <<"store", addr, v>>), 4, addr, v)
    /\ steps' = steps + 1
    /\ UNCHANGED <<cpu, before, instruction>>

\* Interconnect::load::<Word>(addr)
BusLoad(addr) ==
    /\ steps < MaxPairSteps
    /\ ~panicked(inter)
    /\ LET ld == Interconnect_load(Log(inter, <<"load", addr>>), 4, addr)
       IN  inter' = IF panicked(ld.inter) THEN ld.inter
                    ELSE Log(ld.inter, <<"loaded", ld.val>>)
    /\ steps' = steps + 1
    /\ UNCHANGED <<cpu, before, instruction>>

NextTimer ==
    \/ \E addr \in TimerAddresses, v \in TimerValues : BusStore(addr, v)
    \/ \E addr \in TimerAddresses : BusLoad(addr)

SpecTimer == InitTimer /\ [][NextTimer]_vars

\* The log from position n on is a store of v at addr, the timer store it
\* became, a load at addr, the timer load it became and the value returned
StoreThenLoad(n, addr, v) ==
    /\ n + 4 <= Len(inter.log)
    /\ inter.log[n] = <<"store", addr, v>>
    /\ inter.log[n + 1][1] = "timer_store"
    /\ inter.log[n + 2] = <<"load", addr>>
    /\ inter.log[n + 3][1] = "timer_load"
    /\ inter.log[n + 4][1] = "loaded"

\* C30: at every timer register address load and store reach the same one
\* of the three timers: a value stored is the value the next load from that
\* address returns, and the timer index computed is always below 3.
C30_TimerLoadSeesStore ==
    /\ inter.panic # "index out of bounds"
    /\ \A n \in 1..Len(inter.log) :
           inter.log[n][1] \in {"timer_store", "timer_load"}
               => inter.log[n][2] < 3
    /\ \A n \in 1..Len(inter.log), addr \in TimerAddresses, v \in TimerValues :
           StoreThenLoad(n, addr, v)
               => /\ inter.log[n + 3][2] = inter.log[n + 1][2]
                  /\ inter.log[n + 4] = <<"loaded", v>>

====
